---- MODULE Spec2Model ----
(***************************************************************************)
(* asty: a typed syntax tree (asty/nodes.py), its traversal (walk) and the *)
(* structural pattern matcher (asty/visitors.py: Matcher).                 *)
(*                                                                         *)
(* A node is a record [class, fields_set, attrs]:                          *)
(*   class       the Python class of the object (dispatch key),            *)
(*   fields_set  pydantic's __fields_set__, the explicitly supplied names, *)
(*   attrs       the instance __dict__: field name -> value; a name that   *)
(*               is not in DOMAIN attrs is a missing attribute.            *)
(* A field value is tagged by its Python type: None, str, bool, one node,  *)
(* a list of nodes, or a dict of nodes (PackageNode.files).                *)
(* A node of a tree is identified by its path from the root: a sequence of *)
(* <<field name, index>> steps (index 0 for a single-node field).          *)
(***************************************************************************)
EXTENDS Integers, Sequences, FiniteSets, TLC

\* the matcher's state: its pattern and context, the tree it is given (node)
\* and what match returned (result); pc is the position of the driver
VARIABLES pattern, node, context, result, pc
\* traversal: the transformer's visit_<Class> methods (visitor), what
\* transformer.visit(node) returned, what walk(node) yielded, and the order
\* in which NodeVisitor.visit was called
VARIABLES visitor, returned, yielded, visited
\* the visit_<Class> methods of the NodeVisitor subclass
VARIABLES handlers
\* capture lookup: the MatchingResult being indexed, the key, what r[key] gave
VARIABLES focus, key, found
\* wire format: the document, the analyze_function_bodies switch and what
\* deserialization gave
VARIABLES doc, bodies, decoded
\* feature scopes: the tokens of the scopes of analyze_function_bodies that are
\* open, innermost last, and whether an exception is on its way out
VARIABLES tokens, exc
\* calls in progress on the shared tree: for each caller its position, its
\* deque, what it has yielded so far, its pending Matcher.match calls and
\* what its call returned
\* steps: the number of turns each caller has taken
VARIABLES threads, steps

matchVars == <<pattern, context, result>>
treeVars == <<visitor, returned, yielded, visited, handlers>>
lookupVars == <<focus, key, found>>
codecVars == <<doc, bodies, decoded>>
featureVars == <<tokens, exc>>
stepVars == <<threads, steps>>
vars == <<node, pc, matchVars, treeVars, lookupVars, codecVars, featureVars, stepVars>>

\* ------------------------------------------------------------- bounds
\* longest args list of a generated call (target and pattern)
MaxArgs == 2
\* most alternatives in the rules list of a generated MatchRuleNode
MaxRules == 2
\* most declarations in a generated file
MaxDecls == 2

\* deepest nesting of feature scopes
MaxScopes == 5

\* ------------------------------------------------------------- values
None == [k |-> "none"]
Str(s) == [k |-> "str", s |-> s]
Bool(b) == [k |-> "bool", b |-> b]
One(n) == [k |-> "node", n |-> n]
List(s) == [k |-> "list", s |-> s]
Dict(s) == [k |-> "dict", s |-> s]

\* a Python exception leaving the call (AttributeError in this code), and a
\* normal return of v
Raise == [raised |-> TRUE]
Ok(v) == [raised |-> FALSE, v |-> v]

\* isinstance(x, BaseNode) for an object reached by traversal: a node record,
\* as opposed to the dict held by PackageNode.files
IsNode(x) == "class" \in DOMAIN x

\* ------------------------------------------------------------- node classes
\* NodeType value of each class (the default of its node_type field)
NodeTypeOf(cls) ==
  CASE cls = "PositionNode" -> "Position"
    [] cls = "IdentNode" -> "Ident"
    [] cls = "BasicLitNode" -> "BasicLit"
    [] cls = "FuncLitNode" -> "FuncLit"
    [] cls = "SelectorExprNode" -> "SelectorExpr"
    [] cls = "CallExprNode" -> "CallExpr"
    [] cls = "BlockStmtNode" -> "BlockStmt"
    [] cls = "FuncDeclNode" -> "FuncDecl"
    [] cls = "FileNode" -> "File"
    [] cls = "PackageNode" -> "Package"
    [] cls = "MatchRuleNode" -> "MatchRule"

\* the fields iterate_children reads, in the order it reads them
ChildFieldNames(cls) ==
  CASE cls = "PositionNode" -> <<>>
    [] cls = "IdentNode" -> <<"name_pos">>
    [] cls = "BasicLitNode" -> <<"value_pos">>
    [] cls = "FuncLitNode" -> <<"type", "body">>
    [] cls = "SelectorExprNode" -> <<"x", "sel">>
    [] cls = "CallExprNode" -> <<"fun", "lparen", "args", "ellipsis", "rparen">>
    [] cls = "BlockStmtNode" -> <<"lbrace", "stmt_list", "rbrace">>
    [] cls = "FuncDeclNode" -> <<"doc", "recv", "name", "type", "body">>
    [] cls = "FileNode" ->
         <<"doc", "package", "name", "decls", "imports", "unresolved", "comments">>
    [] cls = "PackageNode" -> <<"files">>
    [] cls = "MatchRuleNode" -> <<"rules">>

\* the attribute values pydantic gives the fields that were not supplied:
\* every declared field that is not required gets its default
FieldDefaults(cls) ==
  LET base == [node_type |-> Str(NodeTypeOf(cls)), ref_id |-> None] IN
  CASE cls = "PositionNode" ->
         base @@ [filename |-> None, offset |-> None, line |-> None, column |-> None]
    [] cls = "IdentNode" -> base @@ [name_pos |-> None, name |-> None]
    [] cls = "BasicLitNode" -> base @@ [value_pos |-> None, kind |-> None, value |-> None]
    [] cls = "FuncLitNode" -> base @@ [type |-> None, body |-> None]
    [] cls = "SelectorExprNode" -> base @@ [x |-> None, sel |-> None]
    [] cls = "CallExprNode" ->
         base @@ [fun |-> None, lparen |-> None, args |-> None,
                  ellipsis |-> None, rparen |-> None]
    [] cls = "BlockStmtNode" ->
         base @@ [lbrace |-> None, stmt_list |-> None, rbrace |-> None]
    [] cls = "FuncDeclNode" ->
         base @@ [doc |-> None, recv |-> None, name |-> None, type |-> None,
                  body |-> None]
    [] cls = "FileNode" ->
         base @@ [doc |-> None, package |-> None, name |-> None, decls |-> None,
                  imports |-> None, unresolved |-> None, comments |-> None,
                  file_set |-> None]
    [] cls = "PackageNode" -> base @@ [name |-> None, files |-> None]
    [] cls = "MatchRuleNode" ->
         base @@ [rules |-> List(<<>>), exact |-> Bool(FALSE), operator |-> Str("anyOf")]

\* BaseNode.construct(_fields_set, **values): no validation; an absent or
\* empty _fields_set becomes {'node_type'} plus the supplied names
construct(cls, _fields_set, values) ==
  [class |-> cls,
   fields_set |-> IF _fields_set = {} THEN {"node_type"} \cup DOMAIN values
                  ELSE _fields_set,
   attrs |-> values @@ FieldDefaults(cls)]

\* getattr(obj, name, None)
getattr(obj, name) ==
  IF IsNode(obj) /\ name \in DOMAIN obj.attrs THEN obj.attrs[name] ELSE None

\* ------------------------------------------------------------- traversal
\* iter_field(name, node): the field is listed unless its value is None
iter_field(name, value) ==
  IF value # None THEN <<[name |-> name, value |-> value]>> ELSE <<>>

RECURSIVE IterateFrom(_, _, _)
IterateFrom(n, names, i) ==
  IF i > Len(names) THEN Ok(<<>>)
  ELSE IF names[i] \notin DOMAIN n.attrs THEN Raise
  ELSE LET rest == IterateFrom(n, names, i + 1) IN
       IF rest.raised THEN Raise
       ELSE Ok(iter_field(names[i], n.attrs[names[i]]) \o rest.v)

\* <Class>.iterate_children: reads self.<field> for each child field in the
\* declared order (AttributeError when the attribute is gone)
iterate_children(n) == IterateFrom(n, ChildFieldNames(n.class), 1)

\* iter_fields(node): node.iterate_children(); an object that is no node (the
\* files dict) has no such method
iter_fields(obj) == IF IsNode(obj) THEN iterate_children(obj) ELSE Raise

\* the objects one listed field contributes to iter_child_nodes, with their
\* paths: the items of a list, otherwise the value itself (a node or a dict)
FieldItems(path, f) ==
  IF f.value.k = "list"
  THEN [i \in 1..Len(f.value.s) |->
          [path |-> Append(path, <<f.name, i>>), obj |-> f.value.s[i]]]
  ELSE IF f.value.k = "node"
  THEN <<[path |-> Append(path, <<f.name, 0>>), obj |-> f.value.n]>>
  ELSE <<[path |-> Append(path, <<f.name, 0>>), obj |-> f.value]>>

RECURSIVE FlattenItems(_, _, _)
FlattenItems(path, fs, i) ==
  IF i > Len(fs) THEN <<>>
  ELSE FieldItems(path, fs[i]) \o FlattenItems(path, fs, i + 1)

iter_child_nodes(path, obj) ==
  LET fs == iter_fields(obj) IN
  IF fs.raised THEN Raise ELSE Ok(FlattenItems(path, fs.v, 1))

\* mutant of WalkLoop: the children go to the head of the deque (a stack)
RECURSIVE WalkLoop_depth_first(_, _)
WalkLoop_depth_first(todo, out) ==
  IF todo = <<>> THEN [raised |-> FALSE, v |-> out]
  ELSE LET cur == Head(todo)
           ch == iter_child_nodes(cur.path, cur.obj) IN
       IF ch.raised THEN [raised |-> TRUE, v |-> out]
       ELSE WalkLoop_depth_first(ch.v \o Tail(todo), Append(out, cur))

\* walk(node): the deque loop; out is what has been yielded so far
RECURSIVE WalkLoop(_, _)
WalkLoop(todo, out) ==
  IF todo = <<>> THEN [raised |-> FALSE, v |-> out]
  ELSE LET cur == Head(todo)
           ch == iter_child_nodes(cur.path, cur.obj) IN
       IF ch.raised THEN [raised |-> TRUE, v |-> out]
       ELSE WalkLoop(Tail(todo) \o ch.v, Append(out, cur))

walk(path, obj) == WalkLoop(<<[path |-> path, obj |-> obj]>>, <<>>)

\* ------------------------------------------------------------- results
\* mutant of MatchingResult: the context is not kept
MatchingResult_unlabelled(ppath, npath, ctx) ==
  [pattern |-> ppath, node |-> npath, context |-> None, matches |-> <<>>]

\* MatchingResult(pattern, node, context): pattern and node are held by
\* reference; the model keeps their paths from the two roots
MatchingResult(ppath, npath, ctx) ==
  [pattern |-> ppath, node |-> npath, context |-> ctx, matches |-> <<>>]

\* MatchingResult.attach(*sub_match)
attach(r, sub_match) == [r EXCEPT !.matches = @ \o sub_match]

\* ------------------------------------------------------------- Matcher
\* Matcher(P, ctx).match(N); P sits at ppath of the root pattern and N at
\* npath of the root target
RECURSIVE match(_, _, _, _, _)
RECURSIVE generic_match(_, _, _, _, _)
RECURSIVE sub_matches_from(_, _, _, _, _)
RECURSIVE match_candidates(_, _, _, _)
RECURSIVE single_match_from(_, _, _, _, _, _)
RECURSIVE search_match_from(_, _, _, _, _)

\* the pattern's structural fields: {name: value for name, value in
\* iter_fields(self.pattern)}
complex_fields(P) == iter_fields(P)

FieldNameSet(fs) == {fs[i].name : i \in 1..Len(fs)}

\* mutant of scalar_fields_match: every attribute is compared, set or not
scalar_fields_match_all(P, N, cf) ==
  \A name \in DOMAIN P.attrs :
    name \in FieldNameSet(cf) \/ P.attrs[name] = getattr(N, name)

\* the loop over self.pattern.__fields_set__: every set field that is not a
\* complex field must compare equal to getattr(node, name, None)
scalar_fields_match(P, N, cf) ==
  \A name \in P.fields_set :
    name \in FieldNameSet(cf) \/ P.attrs[name] = getattr(N, name)

\* mutant of pattern_items: only the first item of a list is a sub-pattern
pattern_items_first_only(ppath, f) ==
  IF FieldItems(ppath, f) = <<>> THEN <<>> ELSE <<FieldItems(ppath, f)[1]>>

\* the sub-patterns of one complex field: the list's items, or the one value
pattern_items(ppath, f) == FieldItems(ppath, f)

\* mutant of candidates: only the first item of a list is tried
candidates_first_only(npath, name, node_value) ==
  IF node_value.k = "list" /\ node_value.s # <<>>
  THEN <<[path |-> Append(npath, <<name, 1>>), obj |-> node_value.s[1]]>>
  ELSE IF node_value.k = "node"
  THEN <<[path |-> Append(npath, <<name, 0>>), obj |-> node_value.n]>>
  ELSE <<>>

\* the nodes of N a sub-pattern is tried on: the items of a list value, the
\* node of a single value, nothing for any other value
candidates(npath, name, node_value) ==
  IF node_value.k = "list" \/ node_value.k = "node"
  THEN FieldItems(npath, [name |-> name, value |-> node_value])
  ELSE <<>>

\* mutant of match_candidates: the candidates' results are put together in
\* reverse
RECURSIVE match_candidates_reversed(_, _, _, _)
match_candidates_reversed(item, name, cands, i) ==
  IF i > Len(cands) THEN Ok(<<>>)
  ELSE LET here == match(item.obj, item.path, Str(name), cands[i].obj, cands[i].path) IN
       IF here.raised THEN Raise
       ELSE LET rest == match_candidates_reversed(item, name, cands, i + 1) IN
            IF rest.raised THEN Raise ELSE Ok(rest.v \o here.v)

\* sub_match of one sub-pattern: the results on every candidate, in order
match_candidates(item, name, cands, i) ==
  IF i > Len(cands) THEN Ok(<<>>)
  ELSE LET here == match(item.obj, item.path, Str(name), cands[i].obj, cands[i].path) IN
       IF here.raised THEN Raise
       ELSE LET rest == match_candidates(item, name, cands, i + 1) IN
            IF rest.raised THEN Raise ELSE Ok(here.v \o rest.v)

\* whether the sub-pattern's results let the match go on
sub_match_found(sub_match) == sub_match # <<>>

\* whether a sub-pattern is skipped because the node has no value to try
field_skipped(node_value) == node_value = None

\* the loops over complex_fields.items() and over items, flattened: work is
\* the sequence of [name, item] still to do, acc is sub_matches so far
sub_matches_from(N, npath, work, i, acc) ==
  IF i > Len(work) THEN [raised |-> FALSE, failed |-> FALSE, v |-> acc]
  ELSE LET name == work[i].name
           node_value == getattr(N, name) IN
       IF field_skipped(node_value)
       THEN sub_matches_from(N, npath, work, i + 1, acc)
       ELSE LET sub_match ==
                  match_candidates(work[i].item, name,
                                   candidates(npath, name, node_value), 1) IN
            IF sub_match.raised THEN [raised |-> TRUE, failed |-> FALSE, v |-> acc]
            ELSE IF ~sub_match_found(sub_match.v)
            THEN [raised |-> FALSE, failed |-> TRUE, v |-> acc]
            ELSE sub_matches_from(N, npath, work, i + 1, acc \o sub_match.v)

RECURSIVE WorkList(_, _, _)
WorkList(ppath, cf, i) ==
  IF i > Len(cf) THEN <<>>
  ELSE LET its == pattern_items(ppath, cf[i]) IN
       [j \in 1..Len(its) |-> [name |-> cf[i].name, item |-> its[j]]]
         \o WorkList(ppath, cf, i + 1)

generic_match(P, ppath, ctx, N, npath) ==
  LET cf == complex_fields(P) IN
  IF cf.raised THEN Raise
  ELSE IF ~scalar_fields_match(P, N, cf.v) THEN Ok(<<>>)
  ELSE LET r == sub_matches_from(N, npath, WorkList(ppath, cf.v, 1), 1, <<>>) IN
       IF r.raised THEN Raise
       ELSE IF r.failed THEN Ok(<<>>)
       ELSE Ok(<<attach(MatchingResult(ppath, npath, ctx), r.v)>>)

\* mutant of group_result: the group's result is yielded with nothing attached
group_result_bare(gpath, ctx, npath, sub_match) ==
  <<MatchingResult(gpath, npath, ctx)>>

\* what _single_match yields for one rule whose sub_match is not empty
group_result(gpath, ctx, npath, sub_match) ==
  <<attach(MatchingResult(gpath, npath, ctx), sub_match)>>

\* Matcher._single_match: the loop over self.pattern.rules from rule i on
single_match_from(G, gpath, ctx, N, npath, i) ==
  LET rules == G.attrs["rules"] IN
  IF rules.k # "list" THEN Raise
  ELSE IF i > Len(rules.s) THEN Ok(<<>>)
  ELSE IF "name" \notin DOMAIN G.attrs THEN Raise
  ELSE LET sub_match == match(rules.s[i], Append(gpath, <<"rules", i>>),
                              G.attrs["name"], N, npath) IN
       IF sub_match.raised THEN Raise
       ELSE LET rest == single_match_from(G, gpath, ctx, N, npath, i + 1) IN
            IF rest.raised THEN Raise
            ELSE Ok((IF sub_match.v # <<>>
                     THEN group_result(gpath, ctx, npath, sub_match.v)
                     ELSE <<>>) \o rest.v)

_single_match(G, gpath, ctx, N, npath) == single_match_from(G, gpath, ctx, N, npath, 1)

\* the loop of _search_match over the nodes walk has yielded
search_match_from(G, gpath, ctx, walked, i) ==
  IF i > Len(walked) THEN Ok(<<>>)
  ELSE LET here == _single_match(G, gpath, ctx, walked[i].obj, walked[i].path) IN
       IF here.raised THEN Raise
       ELSE LET rest == search_match_from(G, gpath, ctx, walked, i + 1) IN
            IF rest.raised THEN Raise ELSE Ok(here.v \o rest.v)

\* mutant of _search_match: only the tree's root is tried
_search_match_root_only(G, gpath, ctx, tree, tpath) ==
  _single_match(G, gpath, ctx, tree, tpath)

\* Matcher._search_match: _single_match at every node of walk(tree); an
\* exception out of walk ends the generator, and match() returns nothing
_search_match(G, gpath, ctx, tree, tpath) ==
  LET w == walk(tpath, tree) IN
  IF w.raised THEN Raise ELSE search_match_from(G, gpath, ctx, w.v, 1)

\* mutant of exact_is_true: the flag is read the wrong way round
exact_inverted(G) == getattr(G, "exact") # Bool(TRUE)

\* mutant of exact_is_true: the operator is read too, allOf anchoring the group
exact_or_all_of(G) ==
  getattr(G, "exact") = Bool(TRUE) \/ getattr(G, "operator") = Str("allOf")

\* the truth value of self.pattern.exact
exact_is_true(G) == getattr(G, "exact") = Bool(TRUE)

match_MatchRuleNode(G, gpath, ctx, N, npath) ==
  IF exact_is_true(G)
  THEN _single_match(G, gpath, ctx, N, npath)
  ELSE _search_match(G, gpath, ctx, N, npath)

\* Matcher.match: dispatch on the class name of the pattern
match(P, ppath, ctx, N, npath) ==
  IF IsNode(P) /\ P.class = "MatchRuleNode"
  THEN match_MatchRuleNode(P, ppath, ctx, N, npath)
  ELSE generic_match(P, ppath, ctx, N, npath)

\* ------------------------------------------------------------- inputs
\* sequences over S of length 0..n
SeqsUpTo(S, n) == UNION {[1..k -> S] : k \in 0..n}

\* a node as deserialization leaves it: the payload's keys (its NodeType
\* among them) are the set fields, every other field has its default
parsed(cls, values) ==
  [class |-> cls,
   fields_set |-> {"node_type"} \cup DOMAIN values,
   attrs |-> values @@ FieldDefaults(cls)]

Names == {"print", "log"}

\* --- target trees
TIdents == {parsed("IdentNode", [name |-> Str(n)]) : n \in Names}
             \cup {parsed("IdentNode", <<>>)}
TLit == parsed("BasicLitNode", [kind |-> Str("STRING"), value |-> Str("x")])
TSelector ==
  parsed("SelectorExprNode",
         [x |-> One(parsed("IdentNode", [name |-> Str("log")])),
          sel |-> One(parsed("IdentNode", [name |-> Str("print")]))])
TArgs == {parsed("IdentNode", [name |-> Str("print")]), TLit}
TFuns == TIdents \cup {TLit, TSelector}

\* calls of depth one: fun and args each supplied or not
TCalls ==
  {parsed("CallExprNode", [fun |-> One(f), args |-> List(a)]) :
     f \in TFuns, a \in SeqsUpTo(TArgs, MaxArgs)}
  \cup {parsed("CallExprNode", [fun |-> One(f)]) : f \in TFuns}
  \cup {parsed("CallExprNode", [args |-> List(a)]) : a \in SeqsUpTo(TArgs, MaxArgs)}
  \cup {parsed("CallExprNode", [fun |-> None, args |-> List(<<TLit>>)])}

TInnerCalls ==
  {parsed("CallExprNode", [fun |-> One(f), args |-> List(<<TLit>>)]) :
     f \in {parsed("IdentNode", [name |-> Str("print")]), TSelector}}

\* calls that hold calls
TNestedCalls ==
  {parsed("CallExprNode", [fun |-> One(f), args |-> List(<<c>>)]) :
     f \in {parsed("IdentNode", [name |-> Str("print")]), TSelector},
     c \in TInnerCalls}
  \cup {parsed("CallExprNode", [args |-> List(<<c, TLit>>)]) : c \in TInnerCalls}

TFiles ==
  {parsed("FileNode",
          [name |-> One(parsed("IdentNode", [name |-> Str("main")])),
           decls |-> List(d)]) : d \in SeqsUpTo(TInnerCalls, MaxDecls) \ {<<>>}}

TPackages ==
  {parsed("PackageNode", [name |-> Str("main")])}
  \cup {parsed("PackageNode",
               [name |-> Str("main"), files |-> Dict(<<<<"a.go", f>>>>)]) :
          f \in TFiles}

Targets == TIdents \cup {TLit, TSelector} \cup TCalls \cup TNestedCalls
             \cup TFiles \cup TPackages

\* --- patterns, built as main.py builds them, with construct
PIdentAny == construct("IdentNode", {}, <<>>)
PIdentPrint == construct("IdentNode", {}, [name |-> Str("print")])
PLitString == construct("BasicLitNode", {}, [kind |-> Str("STRING")])

\* IdentNode(): the validating constructor, given no field at all; only the
\* fields it is given are set
init(cls, values) ==
  [class |-> cls, fields_set |-> DOMAIN values, attrs |-> values @@ FieldDefaults(cls)]

PIdentBare == init("IdentNode", <<>>)

PIdents ==
  {PIdentAny}
  \cup {construct("IdentNode", {}, [name |-> Str(n)]) : n \in Names}
  \* name explicitly null
  \cup {construct("IdentNode", {}, [name |-> None])}
  \* an explicit _fields_set that leaves node_type out
  \cup {construct("IdentNode", {"name"}, [name |-> Str(n)]) : n \in {"print", "main"}}

\* a named group around one alternative
Group(name, rules, exact) ==
  construct("MatchRuleNode", {},
            [name |-> Str(name), rules |-> List(rules), exact |-> Bool(exact)])

PFunOpts ==
  {PIdentAny, PIdentPrint, Group("fn", <<PIdentPrint>>, FALSE),
   Group("fn", <<PIdentPrint>>, TRUE)}

PArgItems == {PLitString, Group("constant", <<PLitString>>, FALSE)}

PCalls ==
  {construct("CallExprNode", {}, [fun |-> One(f), args |-> List(a)]) :
     f \in PFunOpts, a \in SeqsUpTo(PArgItems, MaxArgs)}
  \cup {construct("CallExprNode", {}, [fun |-> One(f)]) : f \in PFunOpts}
  \cup {construct("CallExprNode", {}, [args |-> List(a)]) :
          a \in SeqsUpTo(PArgItems, MaxArgs)}
  \* fun explicitly null
  \cup {construct("CallExprNode", {}, [fun |-> None])}
  \cup {construct("CallExprNode", {}, <<>>)}
  \* explicit _fields_set leaving node_type out
  \cup {construct("CallExprNode", {"fun"}, [fun |-> One(PIdentPrint)])}
  \* the callee pattern built with the validating constructor
  \cup {construct("CallExprNode", {}, [fun |-> One(PIdentBare)])}

PSelectors ==
  {construct("SelectorExprNode", {}, [sel |-> One(PIdentPrint)])}

PPackages == {construct("PackageNode", {}, [name |-> Str("main")])}

\* the alternatives of the generated top-level groups
PAlternatives ==
  {PIdentAny,
   construct("CallExprNode", {}, [fun |-> One(PIdentPrint)]),
   construct("CallExprNode", {},
             [args |-> List(<<Group("constant", <<PLitString>>, FALSE)>>)]),
   construct("PackageNode", {}, [name |-> Str("main")])}

PGroups ==
  {Group("call", r, e) : r \in SeqsUpTo(PAlternatives, MaxRules), e \in BOOLEAN}

\* MatchOperatorType
Operators == {"anyOf", "allOf", "oneOf", "not"}

\* the group built with operator=op as well
WithOperator(G, op) ==
  [G EXCEPT !.attrs.operator = Str(op), !.fields_set = @ \cup {"operator"}]

\* groups with an operator, at the top and inside a field
POperators ==
  {WithOperator(Group("call", <<a>>, e), op) :
     a \in PAlternatives, e \in BOOLEAN, op \in Operators}
  \cup {construct("CallExprNode", {},
                  [fun |-> One(WithOperator(Group("fn", <<PIdentPrint>>, FALSE), op))]) :
          op \in Operators}

Patterns == PIdents \cup {PLitString} \cup PCalls \cup PSelectors \cup PPackages
              \cup PGroups \cup POperators

Contexts == {None, Str("root")}

\* ------------------------------------------------------------- behaviour
\* the parts of the state an entry point does not use
NoMatcher == pattern = PIdentAny /\ context = None /\ result = Ok(<<>>)
NoTraversal ==
  /\ visitor = <<>>
  /\ handlers = <<>>
  /\ returned = None
  /\ yielded = [raised |-> FALSE, v |-> <<>>]
  /\ visited = [raised |-> FALSE, v |-> <<>>]
NoLookup == focus = MatchingResult(<<>>, <<>>, None) /\ key = None /\ found = <<>>
NoCodec == doc = [as |-> "FileNode", text |-> [k |-> "null"]] /\ bodies = TRUE /\ decoded = Ok(None)
NoFeature == tokens = <<>> /\ exc = FALSE
NoThreads == threads = <<>> /\ steps = <<>>

Init ==
  /\ pattern \in Patterns
  /\ node \in Targets
  /\ context \in Contexts
  /\ result = Ok(<<>>)
  /\ pc = "ready"
  /\ NoTraversal /\ NoLookup /\ NoCodec /\ NoFeature /\ NoThreads

\* result = Matcher(pattern, context).match(node)
Match ==
  /\ pc = "ready"
  /\ result' = match(pattern, <<>>, context, node, <<>>)
  /\ pc' = "matched"
  /\ UNCHANGED <<pattern, node, context, treeVars, lookupVars, codecVars,
               featureVars, stepVars>>

Next == Match

Spec == Init /\ [][Next]_vars

\* ------------------------------------------------------------- properties
IsGroup(P) == P.class = "MatchRuleNode"

\* f is one of the structural (child) fields the class of P declares
IsStructuralName(P, f) ==
  \E i \in 1..Len(ChildFieldNames(P.class)) : ChildFieldNames(P.class)[i] = f

\* the scalar fields explicitly set on P
SetScalarFields(P) == {f \in P.fields_set : ~IsStructuralName(P, f)}

\* the structural fields explicitly set on P to a node or a non-empty list
SetStructuralFields(P) ==
  {f \in P.fields_set :
     /\ IsStructuralName(P, f)
     /\ \/ P.attrs[f].k = "node"
        \/ P.attrs[f].k = "list" /\ P.attrs[f].s # <<>>}

\* match returned (raised nothing) and returned at least one result
Returned == pc = "matched" /\ ~result.raised
Succeeded == Returned /\ result.v # <<>>

\* C1: a structural field set on a non-group pattern and unset or null on
\* the target leaves the match without a result (stated for a target of the
\* pattern's own variant, where the tag comparison cannot be what fails).
C1_UnsetTargetFieldFails ==
  (/\ pc = "matched"
   /\ ~IsGroup(pattern)
   /\ node.class = pattern.class
   /\ \E f \in SetStructuralFields(pattern) : getattr(node, f) = None)
  => result = Ok(<<>>)

\* C2: a non-group pattern never matches a target of another variant,
\* whatever its set fields are.
C2_TagCheck ==
  (pc = "matched" /\ ~IsGroup(pattern) /\ node.class # pattern.class)
  => result = Ok(<<>>)

\* C3: when a non-group pattern matches, every scalar field set on the
\* pattern is set on the target, with an equal value.
C3_ScalarFieldsSetAndEqual ==
  (Succeeded /\ ~IsGroup(pattern))
  => \A f \in SetScalarFields(pattern) :
       f \in node.fields_set /\ node.attrs[f] = pattern.attrs[f]

\* --- helpers for the structural part of generic match
\* the sub-patterns P holds in its listed structural fields
SubPatterns(P) ==
  LET cf == iter_fields(P).v IN
  UNION {{[name |-> cf[i].name, item |-> it] :
            it \in {FieldItems(<<>>, cf[i])[j] : j \in 1..Len(FieldItems(<<>>, cf[i]))}} :
         i \in 1..Len(cf)}

\* the child nodes N holds in field f, as a set
ChildrenIn(N, f) ==
  LET v == getattr(N, f) IN
  IF v.k = "list" THEN {[path |-> <<<<f, j>>>>, obj |-> v.s[j]] : j \in 1..Len(v.s)}
  ELSE IF v.k = "node" THEN {[path |-> <<<<f, 0>>>>, obj |-> v.n]}
  ELSE {}

\* every scalar field set on P equals what N holds under that name
ScalarsAgree(P, N) ==
  \A f \in P.fields_set :
    (\A i \in 1..Len(iter_fields(P).v) : iter_fields(P).v[i].name # f)
      => P.attrs[f] = getattr(N, f)

\* every listed structural field of P holds exactly one sub-pattern, and N
\* has a value for it
OneSubPatternPerField(P, N) ==
  /\ ~iter_fields(P).raised
  /\ \A i \in 1..Len(iter_fields(P).v) :
       /\ Len(FieldItems(<<>>, iter_fields(P).v[i])) = 1
       /\ getattr(N, iter_fields(P).v[i].name) # None

\* the results of the matcher built for sub-pattern sp on candidate c
SubResults(sp, c) == match(sp.item.obj, sp.item.path, Str(sp.name), c.obj, c.path)

\* C4: with one sub-pattern per structural field and the field set on the
\* target, generic match succeeds exactly when every such field has at least
\* one candidate with a result, and each sub-match carries its field's name
\* as context.
C4_ExistentialOverCandidates ==
  (/\ Returned
   /\ ~IsGroup(pattern)
   /\ OneSubPatternPerField(pattern, node)
   /\ ScalarsAgree(pattern, node))
  => /\ (result.v # <<>>) <=>
          \A sp \in SubPatterns(pattern) :
            \E c \in ChildrenIn(node, sp.name) :
              ~SubResults(sp, c).raised /\ SubResults(sp, c).v # <<>>
     /\ \A r \in 1..Len(result.v) : \A m \in 1..Len(result.v[r].matches) :
          LET sub == result.v[r].matches[m] IN
          sub.context = Str(sub.pattern[1][1])

\* C4 witness: a field with two candidates, the first without a result and
\* the second with one, and the match succeeded.
C4_Witness ==
  /\ Succeeded
  /\ ~IsGroup(pattern)
  /\ OneSubPatternPerField(pattern, node)
  /\ \E sp \in SubPatterns(pattern) :
       \E c1, c2 \in ChildrenIn(node, sp.name) :
         /\ c1.path[1][2] < c2.path[1][2]
         /\ SubResults(sp, c1) = Ok(<<>>)
         /\ SubResults(sp, c2).v # <<>>

\* --- C5
\* position of structural field f in the declared order of P's class
FieldIndex(P, f) ==
  CHOOSE i \in 1..Len(ChildFieldNames(P.class)) : ChildFieldNames(P.class)[i] = f

\* where a sub-match of the root result comes from: the field, the
\* sub-pattern's index in the pattern's field, the candidate's index in N's
SubField(m) == FieldIndex(pattern, m.pattern[1][1])
SubItem(m) == m.pattern[1][2]
SubCandidate(m) == m.node[1][2]

\* the root result is the only one, it is for N and P, and its matches are
\* the successful sub-matches, each exactly once
C5_OneResultWithAllSubMatches ==
  /\ Len(result.v) = 1
  /\ result.v[1].node = <<>>
  /\ result.v[1].pattern = <<>>
  /\ LET ms == result.v[1].matches IN
     /\ \A sp \in SubPatterns(pattern) : \A c \in ChildrenIn(node, sp.name) :
          \A k \in 1..Len(SubResults(sp, c).v) :
            \E i \in 1..Len(ms) : ms[i] = SubResults(sp, c).v[k]
     /\ \A i \in 1..Len(ms) :
          \E sp \in SubPatterns(pattern) : \E c \in ChildrenIn(node, sp.name) :
            \E k \in 1..Len(SubResults(sp, c).v) : ms[i] = SubResults(sp, c).v[k]
     /\ \A i, j \in 1..Len(ms) : i < j => ms[i] # ms[j]

\* C5 as stated: on success generic match returns one result for N and P
\* whose matches are all successful sub-matches, ordered by field and, within
\* a field, by candidate order in N.
C5_OrderedByFieldThenCandidate ==
  (Succeeded /\ ~IsGroup(pattern))
  => /\ C5_OneResultWithAllSubMatches
     /\ LET ms == result.v[1].matches IN
        \A i, j \in 1..Len(ms) :
          i < j =>
            \/ SubField(ms[i]) < SubField(ms[j])
            \/ /\ SubField(ms[i]) = SubField(ms[j])
               /\ SubCandidate(ms[i]) <= SubCandidate(ms[j])

\* C5 amended: the matches are ordered by field, then by the sub-pattern's
\* position in the pattern's field, then by candidate order in N.
C5_OrderedByFieldItemCandidate ==
  (Succeeded /\ ~IsGroup(pattern))
  => /\ C5_OneResultWithAllSubMatches
     /\ LET ms == result.v[1].matches IN
        \A i, j \in 1..Len(ms) :
          i < j =>
            \/ SubField(ms[i]) < SubField(ms[j])
            \/ /\ SubField(ms[i]) = SubField(ms[j])
               /\ \/ SubItem(ms[i]) < SubItem(ms[j])
                  \/ /\ SubItem(ms[i]) = SubItem(ms[j])
                     /\ SubCandidate(ms[i]) <= SubCandidate(ms[j])

\* C5 witness: sub-matches of two fields, and in one field an earlier
\* sub-pattern's match on a later candidate precedes a later sub-pattern's
\* match on an earlier candidate.
C5_Witness ==
  /\ Succeeded
  /\ ~IsGroup(pattern)
  /\ LET ms == result.v[1].matches IN
     /\ \E i, j \in 1..Len(ms) : SubField(ms[i]) < SubField(ms[j])
     /\ \E i, j \in 1..Len(ms) :
          /\ i < j
          /\ SubField(ms[i]) = SubField(ms[j])
          /\ SubItem(ms[i]) < SubItem(ms[j])
          /\ SubCandidate(ms[i]) > SubCandidate(ms[j])

\* --- groups
\* the object at a path of a tree
RECURSIVE ObjAt(_, _)
ObjAt(obj, path) ==
  IF path = <<>> THEN obj
  ELSE LET step == Head(path)
           v == obj.attrs[step[1]] IN
       ObjAt(IF v.k = "list" THEN v.s[step[2]] ELSE v.n, Tail(path))

\* the results of alternative r of group G, tried at the node at npath
AltResults(G, r, npath) ==
  match(G.attrs.rules.s[r], <<<<"rules", r>>>>, G.attrs.name, ObjAt(node, npath), npath)

AltMatches(G, r, npath) ==
  ~AltResults(G, r, npath).raised /\ AltResults(G, r, npath).v # <<>>

\* G with its exact flag replaced
WithExact(G, b) == [G EXCEPT !.attrs.exact = Bool(b)]

\* C6: a group yields one group-level result per node, and that result wraps
\* the successes of every alternative that matches the node.
C6_OneGroupResultPerNode ==
  (Returned /\ IsGroup(pattern))
  => /\ \A i, j \in 1..Len(result.v) : i < j => result.v[i].node # result.v[j].node
     /\ \A i \in 1..Len(result.v) : \A r \in 1..Len(pattern.attrs.rules.s) :
          \A k \in 1..Len(AltResults(pattern, r, result.v[i].node).v) :
            \E m \in 1..Len(result.v[i].matches) :
              result.v[i].matches[m] = AltResults(pattern, r, result.v[i].node).v[k]

\* C7: every result of an exact group is for the node it was given, and
\* there is none when no alternative matches that node.
C7_ExactIsAnchored ==
  (Returned /\ IsGroup(pattern) /\ pattern.attrs.exact = Bool(TRUE))
  => /\ \A i \in 1..Len(result.v) : result.v[i].node = <<>>
     /\ (\A r \in 1..Len(pattern.attrs.rules.s) : ~AltMatches(pattern, r, <<>>))
          => result.v = <<>>

\* C7 witness: an exact group returned nothing although searching the same
\* tree finds a match at a proper descendant.
C7_Witness ==
  /\ Returned
  /\ IsGroup(pattern)
  /\ pattern.attrs.exact = Bool(TRUE)
  /\ result.v = <<>>
  /\ LET S == match(WithExact(pattern, FALSE), <<>>, context, node, <<>>) IN
     ~S.raised /\ \E j \in 1..Len(S.v) : S.v[j].node # <<>>

\* C8: what exact matching of G at N returns is returned by search matching
\* of G at N too, and search returns a result for every proper descendant at
\* which an alternative matches.
C8_SearchContainsExact ==
  (pc = "matched" /\ IsGroup(pattern))
  => LET E == match(WithExact(pattern, TRUE), <<>>, context, node, <<>>)
         S == match(WithExact(pattern, FALSE), <<>>, context, node, <<>>)
         w == walk(<<>>, node).v IN
     ~E.raised
       => /\ \A i \in 1..Len(E.v) :
               /\ ~S.raised
               /\ \E j \in 1..Len(S.v) :
                    /\ S.v[j].node = E.v[i].node
                    /\ S.v[j].matches = E.v[i].matches
          /\ \A k \in 1..Len(w) : \A r \in 1..Len(pattern.attrs.rules.s) :
               AltMatches(pattern, r, w[k].path)
                 => /\ ~S.raised
                    /\ \E j \in 1..Len(S.v) : S.v[j].node = w[k].path

\* C9: the results of a search are in breadth-first order: by position in
\* walk(T), so never a deeper node before a shallower one.
C9_SearchResultsBreadthFirst ==
  (Returned /\ IsGroup(pattern) /\ pattern.attrs.exact = Bool(FALSE))
  => LET w == walk(<<>>, node).v
         Pos(p) == CHOOSE k \in 1..Len(w) : w[k].path = p IN
     \A i, j \in 1..Len(result.v) :
       i < j => /\ Len(result.v[i].node) <= Len(result.v[j].node)
                /\ Pos(result.v[i].node) <= Pos(result.v[j].node)

\* C9 witness: a match in args is reported before a match below fun, which
\* pre-order would report first.
C9_Witness ==
  /\ Returned
  /\ IsGroup(pattern)
  /\ pattern.attrs.exact = Bool(FALSE)
  /\ \E i, j \in 1..Len(result.v) :
       /\ i < j
       /\ result.v[i].node = <<<<"args", 1>>>>
       /\ result.v[j].node = <<<<"fun", 0>>, <<"x", 0>>>>

\* --- C10
\* P with scalar field f cleared: no longer set, back to its default
Clear(P, f) ==
  [P EXCEPT !.fields_set = @ \ {f},
            !.attrs = [@ EXCEPT ![f] = FieldDefaults(P.class)[f]]]

\* C10: when a non-group pattern matches, the pattern with one set scalar
\* field cleared matches too, at the same node with the same sub-matches.
C10_WildcardMonotonicity ==
  (Succeeded /\ ~IsGroup(pattern))
  => \A f \in SetScalarFields(pattern) :
       LET r2 == match(Clear(pattern, f), <<>>, context, node, <<>>) IN
       /\ ~r2.raised
       /\ r2.v # <<>>
       /\ r2.v[1].node = result.v[1].node
       /\ r2.v[1].matches = result.v[1].matches

\* C10 witness: a match with sub-matches of a pattern that has a set scalar
\* field to clear.
C10_Witness ==
  /\ Succeeded
  /\ ~IsGroup(pattern)
  /\ SetScalarFields(pattern) # {}
  /\ result.v[1].matches # <<>>

\* ------------------------------------------------------------- C11
\* C11: whatever the pattern and the target tree (File and Package
\* aggregates included), Matcher.match returns a list and raises nothing.
C11_MatchNeverRaises == pc = "matched" => ~result.raised

\* ------------------------------------------------------------- NodeVisitor
\* A NodeVisitor subclass h is given by its visit_<Class> methods: "leaf" (a
\* method that returns without visiting the children), "super" (a method that
\* ends in super().generic_visit(node)); a class without a method is
\* "generic".
HandlerKinds == {"generic", "leaf", "super"}

\* 'visit_' + node.__class__.__name__ when the visitor has that method,
\* generic_visit otherwise
MethodFor(h, obj) ==
  IF IsNode(obj) /\ obj.class \in DOMAIN h /\ h[obj.class] # "generic"
  THEN "visit_" \o obj.class
  ELSE "generic_visit"

\* NodeVisitor.visit(obj): out is the sequence of calls of visit so far, each
\* with the method it dispatched to; ret is what the call returns. The fields
\* come lazily from the iterate_children generator, each attribute read when
\* its turn comes.
RECURSIVE visit(_, _, _, _)
RECURSIVE generic_visit(_, _, _, _, _)
RECURSIVE visit_items(_, _, _, _)

visit_items(h, items, i, out) ==
  IF i > Len(items) THEN [raised |-> FALSE, v |-> out, ret |-> None]
  ELSE LET r == visit(h, items[i].path, items[i].obj, out) IN
       IF r.raised THEN r ELSE visit_items(h, items, i + 1, r.v)

\* the loop of generic_visit from the i-th child field on: the items of a
\* list are visited one by one, any other listed value is visited itself;
\* the method has no return statement
generic_visit(h, path, n, i, out) ==
  LET names == ChildFieldNames(n.class) IN
  IF i > Len(names) THEN [raised |-> FALSE, v |-> out, ret |-> None]
  ELSE IF names[i] \notin DOMAIN n.attrs THEN [raised |-> TRUE, v |-> out]
  ELSE LET fs == iter_field(names[i], n.attrs[names[i]])
           r == IF fs = <<>> THEN [raised |-> FALSE, v |-> out, ret |-> None]
                ELSE visit_items(h, FieldItems(path, fs[1]), 1, out) IN
       IF r.raised THEN r ELSE generic_visit(h, path, n, i + 1, r.v)

\* an object that is no node has no visit_<Class> method either, and
\* iter_fields raises on it
visit(h, path, obj, out) ==
  LET out1 == Append(out, [path |-> path, obj |-> obj, method |-> MethodFor(h, obj)]) IN
  IF ~IsNode(obj) THEN [raised |-> TRUE, v |-> out1]
  ELSE IF MethodFor(h, obj) # "generic_visit" /\ h[obj.class] = "leaf"
  THEN [raised |-> FALSE, v |-> out1, ret |-> None]
  ELSE generic_visit(h, path, obj, 1, out1)

\* ------------------------------------------------------------- NodeTransformer
\* A NodeTransformer subclass is given by what its visit_<Class> methods
\* return: "none" (nothing), "pair" (a list of two nodes: the node twice),
\* "replace" (a new node); a class without a method, or with a method that
\* ends in generic_visit, is "generic".
Behaviours == {"generic", "none", "pair", "replace"}

\* the node a "replace" method builds
Replacement == construct("IdentNode", {}, [name |-> Str("log")])

\* getattr(self, 'visit_' + node.__class__.__name__, self.generic_visit)
Behaviour(v, obj) ==
  IF obj.class \in DOMAIN v THEN v[obj.class] ELSE "generic"

\* delattr(node, field): the attribute leaves the instance __dict__;
\* __fields_set__ is not touched
delattr(n, f) ==
  [n EXCEPT !.attrs = [g \in (DOMAIN n.attrs) \ {f} |-> n.attrs[g]]]

\* setattr(node, field, value): pydantic stores the value and adds the name
\* to __fields_set__
setattr(n, f, value) ==
  [n EXCEPT !.attrs = [g \in (DOMAIN n.attrs) \cup {f} |->
                         IF g = f THEN value ELSE n.attrs[g]],
            !.fields_set = @ \cup {f}]

\* mutant of contribution: a returned list is appended as nothing
contribution_single_only(value) ==
  IF value = None THEN <<>>
  ELSE IF value.k = "list" THEN <<>>
  ELSE <<value.n>>

\* what one visited element adds to new_values: nothing for None, the items
\* of a returned sequence, the returned node otherwise
contribution(value) ==
  IF value = None THEN <<>>
  ELSE IF value.k = "list" THEN value.s
  ELSE <<value.n>>

RECURSIVE transformer_visit(_, _)
RECURSIVE transformer_generic_visit(_, _, _)
RECURSIVE new_values(_, _, _)

\* the loop over old_value of a sequence field
new_values(v, old_value, i) ==
  IF i > Len(old_value) THEN <<>>
  ELSE contribution(transformer_visit(v, old_value[i])) \o new_values(v, old_value, i + 1)

\* NodeTransformer.generic_visit from the i-th child field on; n is the node
\* as mutated so far. A pass is started on a tree that holds all its
\* attributes, so iterate_children raises nothing during it.
transformer_generic_visit(v, n, i) ==
  LET names == ChildFieldNames(n.class) IN
  IF i > Len(names) THEN n
  ELSE LET field == names[i]
           old_value == n.attrs[field] IN
       transformer_generic_visit(
         v,
         IF old_value = None THEN n
         ELSE IF old_value.k = "list"
         THEN [n EXCEPT !.attrs[field] = List(new_values(v, old_value.s, 1))]
         ELSE IF old_value.k = "node"
         THEN LET new_node == transformer_visit(v, old_value.n) IN
              IF new_node = None THEN delattr(n, field)
              ELSE setattr(n, field, new_node)
         ELSE n,
         i + 1)

\* self.visit(obj) of the transformer: None, One(node) or List(nodes)
transformer_visit(v, obj) ==
  LET b == Behaviour(v, obj) IN
  IF b = "none" THEN None
  ELSE IF b = "pair" THEN List(<<obj, obj>>)
  ELSE IF b = "replace" THEN One(Replacement)
  ELSE One(transformer_generic_visit(v, obj, 1))

\* --- inputs of the traversal entry points
\* a call whose args hold an identifier, a literal and a call
TSpliceCall ==
  parsed("CallExprNode",
         [args |-> List(<<parsed("IdentNode", [name |-> Str("print")]), TLit,
                          parsed("CallExprNode",
                                 [fun |-> One(parsed("IdentNode", [name |-> Str("print")])),
                                  args |-> List(<<TLit>>)])>>)])

Trees == Targets \cup {TSpliceCall}

VisitedClasses == {"IdentNode", "BasicLitNode", "CallExprNode"}
Visitors == [VisitedClasses -> Behaviours]

\* the NodeVisitor subclasses, and the NodeVisitor and the NodeTransformer
\* without any method
NodeVisitors == [VisitedClasses -> HandlerKinds]
Plain == [c \in VisitedClasses |-> "generic"]

InitTree ==
  /\ node \in Trees
  /\ visitor \in Visitors
  /\ handlers \in NodeVisitors
  /\ visitor = Plain \/ handlers = Plain
  /\ returned = None
  /\ yielded = [raised |-> FALSE, v |-> <<>>]
  /\ visited = [raised |-> FALSE, v |-> <<>>]
  /\ pc = "ready"
  /\ NoMatcher /\ NoLookup /\ NoCodec /\ NoFeature /\ NoThreads

\* yielded = list(walk(node)), on the tree as parsed or after a transformer pass
Walk ==
  /\ pc \in {"ready", "transformed"}
  /\ yielded' = walk(<<>>, node)
  /\ pc' = IF pc = "ready" THEN "walked" ELSE "rewalked"
  /\ UNCHANGED <<node, visitor, handlers, returned, visited, matchVars, lookupVars, codecVars,
               featureVars, stepVars>>

\* visitor.visit(node), for an instance of the NodeVisitor subclass
Visit ==
  /\ pc \in {"ready", "transformed"}
  /\ visited' = visit(handlers, <<>>, node, <<>>)
  /\ pc' = IF pc = "ready" THEN "visited" ELSE "revisited"
  /\ UNCHANGED <<node, visitor, handlers, returned, yielded, matchVars, lookupVars, codecVars,
               featureVars, stepVars>>

\* returned = transformer.visit(node): the root object is mutated in place
\* when its visitor is generic_visit and is left alone otherwise
Transform ==
  /\ pc = "ready"
  /\ returned' = transformer_visit(visitor, node)
  /\ node' = IF Behaviour(visitor, node) = "generic" THEN returned'.n ELSE node
  /\ pc' = "transformed"
  /\ UNCHANGED <<visitor, handlers, yielded, visited, matchVars, lookupVars, codecVars,
               featureVars, stepVars>>

NextTree == Walk \/ Visit \/ Transform

SpecTree == InitTree /\ [][NextTree]_vars

\* ------------------------------------------------------------- C12, C13
\* the child nodes of the node at path, in field order, lists spliced in
\* place and the files of a package in their order
RECURSIVE ChildNodesFrom(_, _, _)
ChildNodesFrom(path, n, i) ==
  LET names == ChildFieldNames(n.class) IN
  IF i > Len(names) THEN <<>>
  ELSE LET f == names[i]
           v == IF f \in DOMAIN n.attrs THEN n.attrs[f] ELSE None IN
       (IF v.k = "list"
        THEN [j \in 1..Len(v.s) |-> [path |-> Append(path, <<f, j>>), obj |-> v.s[j]]]
        ELSE IF v.k = "dict"
        THEN [j \in 1..Len(v.s) |-> [path |-> Append(path, <<f, j>>), obj |-> v.s[j][2]]]
        ELSE IF v.k = "node"
        THEN <<[path |-> Append(path, <<f, 0>>), obj |-> v.n]>>
        ELSE <<>>)
       \o ChildNodesFrom(path, n, i + 1)

RECURSIVE ChildrenOfAll(_, _)
ChildrenOfAll(level, i) ==
  IF i > Len(level) THEN <<>>
  ELSE ChildNodesFrom(level[i].path, level[i].obj, 1) \o ChildrenOfAll(level, i + 1)

\* the nodes of a tree level by level, each level in the order of the
\* parents of the level above
RECURSIVE LevelOrder(_)
LevelOrder(level) ==
  IF level = <<>> THEN <<>> ELSE level \o LevelOrder(ChildrenOfAll(level, 1))

NodesOf(root) == LevelOrder(<<[path |-> <<>>, obj |-> root]>>)

\* C12: walk(root) yields every node of the tree exactly once in
\* breadth-first order: the root, then the children of each node in the order
\* their parents were dequeued, in field order with sequences spliced in.
C12_WalkIsLevelOrder ==
  pc = "walked" => ~yielded.raised /\ yielded.v = NodesOf(node)

\* a package whose files are set
IsLoadedPackage(n) == n.class = "PackageNode" /\ n.attrs.files.k = "dict"

\* every node of the tree is among the items of seq
ReachesAll(seq, root) ==
  \A i \in 1..Len(NodesOf(root)) : \E j \in 1..Len(seq) : seq[j] = NodesOf(root)[i]

\* the objects visit was called on, with their paths
Reached(seq) == [i \in 1..Len(seq) |-> [path |-> seq[i].path, obj |-> seq[i].obj]]

\* C13: on a tree rooted at a PackageNode whose files are set, walk and
\* NodeVisitor.visit complete without error and reach the package, every file
\* and all their descendants.
C13_PackageIsWalkable ==
  /\ (pc = "walked" /\ IsLoadedPackage(node))
       => ~yielded.raised /\ ReachesAll(yielded.v, node)
  /\ (pc = "visited" /\ handlers = Plain /\ IsLoadedPackage(node))
       => ~visited.raised /\ ReachesAll(Reached(visited.v), node)

\* ------------------------------------------------------------- C14
ChildFieldSet(cls) == {ChildFieldNames(cls)[i] : i \in 1..Len(ChildFieldNames(cls))}

\* the child fields whose attribute a transformer pass removed from n
DeletedFields(n) == {f \in ChildFieldSet(n.class) : f \notin DOMAIN n.attrs}

\* C14: after a pass in which the visitor returned nothing for the node of a
\* single-node field, iterate_children on the parent completes and does not
\* list the field, and walk, visiting and matching over the tree complete.
C14_DeletedFieldIsUnset ==
  /\ (pc = "transformed" /\ DeletedFields(node) # {})
       => /\ ~iterate_children(node).raised
          /\ \A i \in 1..Len(iterate_children(node).v) :
               iterate_children(node).v[i].name \notin DeletedFields(node)
          /\ ~walk(<<>>, node).raised
          /\ ~visit(Plain, <<>>, node, <<>>).raised
          /\ ~match(Group("any", <<PIdentAny>>, FALSE), <<>>, None, node, <<>>).raised
  /\ (pc = "rewalked" /\ DeletedFields(node) # {}) => ~yielded.raised
  /\ (pc = "revisited" /\ DeletedFields(node) # {}) => ~visited.raised

\* ------------------------------------------------------------- C15
\* the fields of n that hold a sequence of nodes
SeqFields(n) == {f \in ChildFieldSet(n.class) : n.attrs[f].k = "list"}

\* what the visitor returns for the i-th element of old, as a sequence:
\* nothing, the one node, or the nodes of the returned sequence
Part(v, old, i) ==
  LET r == transformer_visit(v, old[i]) IN
  CASE r.k = "none" -> <<>>
    [] r.k = "node" -> <<r.n>>
    [] r.k = "list" -> r.s

\* the number of elements the first i - 1 elements of old contribute
RECURSIVE Offset(_, _, _)
Offset(v, old, i) ==
  IF i <= 1 THEN 0 ELSE Offset(v, old, i - 1) + Len(Part(v, old, i - 1))

\* C15: generic_visit of a transformer leaves in every sequence field the
\* concatenation, in the original order, of what the visitor returned for
\* each element (its length is the sum of the contributions), and it is the
\* visited node itself, updated in place, that is returned.
C15_SequenceSplice ==
  [][(Transform /\ Behaviour(visitor, node) = "generic")
       => /\ returned' = One(node')
          /\ \A f \in SeqFields(node) :
               LET old == node.attrs[f].s
                   new == node'.attrs[f] IN
               /\ new.k = "list"
               /\ f \in node'.fields_set
               /\ Len(new.s) = Offset(visitor, old, Len(old) + 1)
               /\ \A i \in 1..Len(old) : \A j \in 1..Len(Part(visitor, old, i)) :
                    new.s[Offset(visitor, old, i) + j] = Part(visitor, old, i)[j]]_vars

\* C15 witness: args [identifier, literal, call] under a visitor that drops
\* identifiers, doubles literals and keeps calls became [literal, literal,
\* call]: 0 + 2 + 1 elements.
C15_Witness ==
  /\ pc = "transformed"
  /\ visitor = [IdentNode |-> "none", BasicLitNode |-> "pair", CallExprNode |-> "generic"]
  /\ node.class = "CallExprNode"
  /\ node.attrs.args.k = "list"
  /\ Len(node.attrs.args.s) = 3
  /\ node.attrs.args.s[1] = TLit
  /\ node.attrs.args.s[2] = TLit
  /\ node.attrs.args.s[3].class = "CallExprNode"
  /\ returned = One(node)

\* ------------------------------------------------------------- capture lookup
\* mutant of getitem: the matches below the immediate children are searched too
RECURSIVE getitem_deep(_, _)
getitem_deep(r, k) ==
  LET RECURSIVE from(_)
      from(i) ==
        IF i > Len(r.matches) THEN <<>>
        ELSE (IF r.matches[i].context = k THEN <<r.matches[i]>> ELSE <<>>)
               \o getitem_deep(r.matches[i], k) \o from(i + 1)
  IN from(1)

\* MatchingResult.__getitem__(key), as a list: the matches of self whose
\* context equals key, in order
getitem(r, k) == SelectSeq(r.matches, LAMBDA m : m.context = k)

\* the pattern of the capture example: a search group "call" around a call
\* whose callee is a group "fn" of any identifier and whose args hold a group
\* "const" of a string literal
PCapture ==
  Group("call",
        <<construct("CallExprNode", {},
                    [fun |-> One(Group("fn", <<PIdentAny>>, FALSE)),
                     args |-> List(<<Group("const", <<PLitString>>, FALSE)>>)])>>,
        FALSE)

\* the pattern of main.py
PMain ==
  Group("call",
        <<construct("CallExprNode", {},
                    [fun |-> One(PIdentPrint),
                     args |-> List(<<Group("constant", <<PLitString>>, FALSE)>>)])>>,
        FALSE)

LookupPatterns == {PCapture, PMain}
LookupTargets == TFiles \cup TInnerCalls \cup TNestedCalls
Keys == {Str(k) : k \in {"call", "fun", "args", "fn", "const", "constant"}}

InitLookup ==
  /\ pattern \in LookupPatterns
  /\ node \in LookupTargets
  /\ context = None
  /\ result = Ok(<<>>)
  /\ pc = "ready"
  /\ NoLookup /\ NoTraversal /\ NoCodec /\ NoFeature /\ NoThreads

\* for result in match: one of the results match returned is taken up
Focus ==
  /\ pc = "matched"
  /\ ~result.raised
  /\ \E i \in 1..Len(result.v) : focus' = result.v[i]
  /\ pc' = "focused"
  /\ UNCHANGED <<node, key, found, matchVars, treeVars, codecVars,
               featureVars, stepVars>>

\* found = list(focus[key])
Lookup ==
  /\ pc = "focused"
  /\ \E k \in Keys : key' = k /\ found' = getitem(focus, k)
  /\ pc' = "looked"
  /\ UNCHANGED <<node, focus, matchVars, treeVars, codecVars,
               featureVars, stepVars>>

\* for m in focus[key]: one of the matches found is taken up in turn
Descend ==
  /\ pc = "looked"
  /\ \E j \in 1..Len(found) : focus' = found[j]
  /\ pc' = "focused"
  /\ UNCHANGED <<node, key, found, matchVars, treeVars, codecVars,
               featureVars, stepVars>>

NextLookup == Match \/ Focus \/ Lookup \/ Descend

SpecLookup == InitLookup /\ [][NextLookup]_vars

\* ------------------------------------------------------------- C16
\* a file with two declarations, both calls with one string-literal arg
IsTwoCallFile(n) ==
  /\ n.class = "FileNode"
  /\ n.attrs.decls.k = "list"
  /\ Len(n.attrs.decls.s) = 2

\* the matches reached from the results rs by indexing with each key in turn
RECURSIVE Follow(_, _)
Follow(rs, keys) ==
  IF keys = <<>> THEN rs
  ELSE LET RECURSIVE step(_)
           step(i) == IF i > Len(rs) THEN <<>>
                      ELSE getitem(rs[i], Str(Head(keys))) \o step(i + 1)
       IN Follow(step(1), Tail(keys))

\* the capture pattern was matched against a file with two matching calls
CaptureCase == pc # "ready" /\ pattern = PCapture /\ IsTwoCallFile(node)

\* the results are one per call, in the order of the calls
OneResultPerCall ==
  /\ ~result.raised
  /\ Len(result.v) = 2
  /\ \A i \in 1..2 : result.v[i].node = <<<<"decls", i>>>>

\* where the string literal of the i-th call is
LiteralOfCall(i) == <<<<"decls", i>>, <<"args", 1>>>>

\* C16 as stated: one top-level match per call, and indexing each top-level
\* match by "const" yields exactly the string-literal node of that call.
C16_ConstAtTopLevel ==
  CaptureCase
    => /\ OneResultPerCall
       /\ \A i \in 1..2 :
            LET consts == getitem(result.v[i], Str("const")) IN
            Len(consts) = 1 /\ consts[1].node = LiteralOfCall(i)

\* C16 amended: one top-level match per call, and following the contexts
\* "call", "args", "const" from each top-level match yields exactly the
\* string-literal node of that call; indexing the top-level match by "const"
\* yields nothing.
C16_ConstBelowCallAndArgs ==
  CaptureCase
    => /\ OneResultPerCall
       /\ \A i \in 1..2 :
            LET consts == Follow(<<result.v[i]>>, <<"call", "args", "const">>) IN
            /\ Len(consts) = 1
            /\ consts[1].node = LiteralOfCall(i)
            /\ ObjAt(node, consts[1].node) = TLit
            /\ getitem(result.v[i], Str("const")) = <<>>

\* C16 witness: the lookups "call", "args", "const" were made one after the
\* other from a top-level match on a two-call file and gave the literal.
C16_Witness ==
  /\ CaptureCase
  /\ pc = "looked"
  /\ key = Str("const")
  /\ focus.context = Str("args")
  /\ Len(found) = 1
  /\ found[1].node = LiteralOfCall(2)

\* ------------------------------------------------------------- C17
\* the search pattern CallExpr{fun: Ident{name: "print"}}
PPrintCall == Group("call", <<construct("CallExprNode", {}, [fun |-> One(PIdentPrint)])>>, FALSE)

\* a file holding print("x") and then log.print("x")
IsPrintAndLogFile(n) ==
  /\ IsTwoCallFile(n)
  /\ n.attrs.decls.s[1].attrs.fun.n.class = "IdentNode"
  /\ n.attrs.decls.s[2].attrs.fun.n.class = "SelectorExprNode"

\* P is a call pattern whose fun is an Ident pattern
HasIdentCallee(P) ==
  P.class = "CallExprNode" /\ P.attrs.fun.k = "node" /\ P.attrs.fun.n.class = "IdentNode"

\* N is a call whose callee is a selector expression
HasSelectorCallee(N) ==
  N.class = "CallExprNode" /\ N.attrs.fun.k = "node"
    /\ N.attrs.fun.n.class = "SelectorExprNode"

\* C17: searching CallExpr{fun: Ident{name: "print"}} over a file holding
\* print("x") and log.print("x") gives exactly one match, at the print call;
\* and a call pattern whose fun is an Ident pattern never matches a call
\* whose callee is a selector expression.
C17_SelectorCalleeNeverMatches ==
  /\ (pc = "matched" /\ pattern = PPrintCall /\ IsPrintAndLogFile(node))
       => ~result.raised /\ Len(result.v) = 1 /\ result.v[1].node = <<<<"decls", 1>>>>
  /\ (pc = "matched" /\ HasIdentCallee(pattern) /\ HasSelectorCallee(node))
       => result = Ok(<<>>)

\* ------------------------------------------------------------- C18
\* the positions of the immediate children of r under context k
ChildIndices(r, k) == {i \in 1..Len(r.matches) : r.matches[i].context = k}

\* the j-th smallest member of a set of numbers
Nth(S, j) == CHOOSE i \in S : Cardinality({x \in S : x < i}) = j - 1

\* the results strictly below the immediate children of r
RECURSIVE Below(_)
Below(r) ==
  UNION {{r.matches[i].matches[j] : j \in 1..Len(r.matches[i].matches)}
           \cup Below(r.matches[i]) : i \in 1..Len(r.matches)}

\* C18: r[k] yields exactly the immediate children of r whose context is k,
\* in their order in r.matches, and no deeper descendant of r.
C18_LookupImmediateChildren ==
  pc = "looked"
    => /\ Len(found) = Cardinality(ChildIndices(focus, key))
       /\ \A j \in 1..Len(found) :
            /\ found[j] = focus.matches[Nth(ChildIndices(focus, key), j)]
            /\ found[j] \notin Below(focus)

\* C18 witness: a lookup that found a child, left a sibling of another
\* context out and passed over a deeper match.
C18_Witness ==
  /\ pc = "looked"
  /\ found # <<>>
  /\ Len(found) < Len(focus.matches)
  /\ Below(focus) # {}

\* ------------------------------------------------------------- wire format
\* A JSON value: null, a string, a number, a boolean, an array, or an object
\* given as the sequence of its <<key, value>> members in document order.
JNull == [k |-> "null"]
JStr(x) == [k |-> "str", s |-> x]
JNum(x) == [k |-> "num", n |-> x]
JBool(x) == [k |-> "bool", b |-> x]
JArr(x) == [k |-> "arr", s |-> x]
JObj(x) == [k |-> "obj", m |-> x]

\* an int field value
Num(x) == [k |-> "int", n |-> x]

HasKey(m, a) == \E i \in 1..Len(m) : m[i][1] = a
\* json.loads keeps the last member of a key
Get(m, a) == m[CHOOSE i \in 1..Len(m) : m[i][1] = a /\ \A j \in (i + 1)..Len(m) : m[j][1] # a][2]

\* One declared field: its name, its alias, the kind of its type (t), the
\* class the type names (cls), whether None is allowed (opt), whether it is
\* required (req).  Kinds: "tag" Literal[NodeType.X], "str", "int", "bool",
\* "operator" MatchOperatorType, "node" a node of class cls, "union" Node,
\* "nodes" list of cls, "unions" list[Node], "files" dict[str, FileNode].
Fld(name, alias, t, cls) ==
  [name |-> name, alias |-> alias, t |-> t, cls |-> cls, opt |-> TRUE, req |-> FALSE]
Strict(name, alias, t, cls, req) ==
  [name |-> name, alias |-> alias, t |-> t, cls |-> cls, opt |-> FALSE, req |-> req]

\* the fields of a class in declaration order, BaseNode's first (the FileSet
\* metadata of a file is left out: no document of the model carries any)
DeclaredFields(cls) ==
  <<Strict("node_type", "NodeType", "tag", cls, FALSE), Fld("ref_id", "RefId", "int", "")>>
  \o CASE cls = "PositionNode" ->
            <<Fld("filename", "Filename", "str", ""), Fld("offset", "Offset", "int", ""),
              Fld("line", "Line", "int", ""), Fld("column", "Column", "int", "")>>
       [] cls = "IdentNode" ->
            <<Fld("name_pos", "NamePos", "node", "PositionNode"),
              Fld("name", "Name", "str", "")>>
       [] cls = "BasicLitNode" ->
            <<Fld("value_pos", "ValuePos", "node", "PositionNode"),
              Fld("kind", "Kind", "str", ""), Fld("value", "Value", "str", "")>>
       [] cls = "FuncLitNode" ->
            <<Fld("type", "Type", "node", "FuncTypeNode"),
              Fld("body", "Body", "node", "BlockStmtNode")>>
       [] cls = "SelectorExprNode" ->
            <<Fld("x", "X", "union", ""), Fld("sel", "Sel", "node", "IdentNode")>>
       [] cls = "CallExprNode" ->
            <<Fld("fun", "Fun", "union", ""), Fld("lparen", "Lparen", "node", "PositionNode"),
              Fld("args", "Args", "unions", ""),
              Fld("ellipsis", "Ellipsis", "node", "PositionNode"),
              Fld("rparen", "Rparen", "node", "PositionNode")>>
       [] cls = "BlockStmtNode" ->
            <<Fld("lbrace", "Lbrace", "node", "PositionNode"),
              Fld("stmt_list", "List", "unions", ""),
              Fld("rbrace", "Rbrace", "node", "PositionNode")>>
       [] cls = "FuncDeclNode" ->
            <<Fld("doc", "Doc", "node", "CommentGroupNode"),
              Fld("recv", "Recv", "node", "FieldListNode"),
              Fld("name", "Name", "node", "IdentNode"),
              Fld("type", "Type", "node", "FuncTypeNode"),
              Fld("body", "Body", "node", "BlockStmtNode")>>
       [] cls = "FileNode" ->
            <<Fld("doc", "Doc", "node", "CommentGroupNode"),
              Fld("package", "Package", "node", "PositionNode"),
              Fld("name", "Name", "node", "IdentNode"),
              Fld("decls", "Decls", "unions", ""),
              Fld("imports", "Imports", "nodes", "ImportSpecNode"),
              Fld("unresolved", "Unresolved", "nodes", "IdentNode"),
              Fld("comments", "Comments", "nodes", "CommentGroupNode")>>
       [] cls = "PackageNode" ->
            <<Fld("name", "Name", "str", ""), Fld("files", "Files", "files", "FileNode")>>
       [] cls = "MatchRuleNode" ->
            <<Strict("name", "Name", "str", "", TRUE),
              Strict("rules", "Rules", "unions", "", FALSE),
              Strict("exact", "Exact", "bool", "", FALSE),
              Strict("operator", "Operator", "operator", "", FALSE)>>

\* the classes of the Node union that the model holds, and their tags
NodeClasses ==
  {"PositionNode", "IdentNode", "BasicLitNode", "FuncLitNode", "SelectorExprNode", "CallExprNode",
   "BlockStmtNode", "FuncDeclNode", "FileNode", "PackageNode", "MatchRuleNode"}
KnownTags == {NodeTypeOf(c) : c \in NodeClasses}
ClassOfTag(tag) == CHOOSE c \in NodeClasses : NodeTypeOf(c) = tag

\* mutant of BodyValidated: only the declarations have the validator
BodyValidated_decl_only(cls, name) == cls = "FuncDeclNode" /\ name = "body"

\* the classes with a body
FuncClasses == {"FuncDeclNode", "FuncLitNode"}

\* the fields whose pre-validator returns None while analyze_function_bodies
\* is off
BodyValidated(cls, name) == cls \in FuncClasses /\ name = "body"

\* --- serialization: tree.json(exclude_unset=True, by_alias=True)
\* mutant of emitted: exclude_unset is not applied
emitted_always(n, name) == name \in DOMAIN n.attrs

\* whether a field is written: it is held by the instance and is among the
\* set fields
emitted(n, name) == name \in DOMAIN n.attrs /\ name \in n.fields_set

RECURSIVE serialize(_)
RECURSIVE encode(_)
RECURSIVE serialize_from(_, _, _)

\* the JSON value of a field value
encode(value) ==
  CASE value.k = "none" -> JNull
    [] value.k = "str" -> JStr(value.s)
    [] value.k = "int" -> JNum(value.n)
    [] value.k = "bool" -> JBool(value.b)
    [] value.k = "node" -> JObj(serialize(value.n))
    [] value.k = "list" -> JArr([i \in 1..Len(value.s) |-> JObj(serialize(value.s[i]))])
    [] value.k = "dict" ->
         JObj([i \in 1..Len(value.s) |-> <<value.s[i][1], JObj(serialize(value.s[i][2]))>>])

serialize_from(n, fields, i) ==
  IF i > Len(fields) THEN <<>>
  ELSE (IF emitted(n, fields[i].name)
        THEN <<<<fields[i].alias, encode(n.attrs[fields[i].name])>>>>
        ELSE <<>>)
       \o serialize_from(n, fields, i + 1)

\* the members of the object written for node n: the set fields under their
\* aliases, in declaration order
serialize(n) == serialize_from(n, DeclaredFields(n.class), 1)

\* --- deserialization: <Class>.parse_raw(data)
RECURSIVE decode_node(_, _, _)
RECURSIVE validate(_, _, _)
RECURSIVE decode_value(_, _, _)
RECURSIVE decode_items(_, _, _, _)
RECURSIVE decode_files(_, _, _)
RECURSIVE decode_fields(_, _, _, _, _)

\* a value of the Node union: the class is looked up from the value under the
\* discriminator's alias; no such member, or an unknown tag, is an error
decode_union(jv, b) ==
  IF jv.k = "obj" /\ HasKey(jv.m, "NodeType") /\ Get(jv.m, "NodeType").k = "str"
     /\ Get(jv.m, "NodeType").s \in KnownTags
  THEN decode_node(ClassOfTag(Get(jv.m, "NodeType").s), jv.m, b)
  ELSE Raise

\* the items of a list field, all decoded or an error
decode_items(fld, items, i, b) ==
  IF i > Len(items) THEN Ok(<<>>)
  ELSE LET here == IF fld.t = "unions" THEN decode_union(items[i], b)
                   ELSE validate(fld.cls, items[i], b) IN
       IF here.raised \/ here.v = None THEN Raise
       ELSE LET rest == decode_items(fld, items, i + 1, b) IN
            IF rest.raised THEN Raise ELSE Ok(<<here.v.n>> \o rest.v)

\* the members of a files object, each value a FileNode
decode_files(m, i, b) ==
  IF i > Len(m) THEN Ok(<<>>)
  ELSE LET here == validate("FileNode", m[i][2], b) IN
       IF here.raised THEN Raise
       ELSE LET rest == decode_files(m, i + 1, b) IN
            IF rest.raised THEN Raise ELSE Ok(<<<<m[i][1], here.v.n>>>> \o rest.v)

\* the validation of one supplied value against the field's type, with
\* pydantic's coercions of scalars
decode_value(fld, jv, b) ==
  IF jv = JNull THEN (IF fld.opt THEN Ok(None) ELSE Raise)
  ELSE CASE fld.t = "tag" ->
              IF jv = JStr(NodeTypeOf(fld.cls)) THEN Ok(Str(jv.s)) ELSE Raise
         [] fld.t = "str" ->
              IF jv.k = "str" THEN Ok(Str(jv.s))
              ELSE IF jv.k = "num" THEN Ok(Str(ToString(jv.n)))
              ELSE IF jv.k = "bool" THEN Ok(Str(IF jv.b THEN "True" ELSE "False"))
              ELSE Raise
         [] fld.t = "int" ->
              IF jv.k = "num" THEN Ok(Num(jv.n))
              ELSE IF jv.k = "bool" THEN Ok(Num(IF jv.b THEN 1 ELSE 0))
              ELSE IF jv.k = "str" /\ \E x \in 0..9 : ToString(x) = jv.s
              THEN Ok(Num(CHOOSE x \in 0..9 : ToString(x) = jv.s))
              ELSE Raise
         [] fld.t = "bool" ->
              IF jv.k = "bool" THEN Ok(Bool(jv.b))
              ELSE IF jv \in {JNum(1), JStr("true"), JStr("1")} THEN Ok(Bool(TRUE))
              ELSE IF jv \in {JNum(0), JStr("false"), JStr("0")} THEN Ok(Bool(FALSE))
              ELSE Raise
         [] fld.t = "operator" ->
              IF jv.k = "str" /\ jv.s \in {"anyOf", "allOf", "oneOf", "not"}
              THEN Ok(Str(jv.s)) ELSE Raise
         [] fld.t = "node" -> validate(fld.cls, jv, b)
         [] fld.t = "union" -> decode_union(jv, b)
         [] fld.t \in {"nodes", "unions"} ->
              IF jv.k = "arr"
              THEN LET r == decode_items(fld, jv.s, 1, b) IN
                   IF r.raised THEN Raise ELSE Ok(List(r.v))
              ELSE Raise
         [] fld.t = "files" ->
              IF jv.k = "obj"
              THEN LET r == decode_files(jv.m, 1, b) IN
                   IF r.raised THEN Raise ELSE Ok(Dict(r.v))
              ELSE Raise

\* the fields of cls from the i-th on: a supplied value is validated (after
\* the body pre-validator) and its field counted as set, a field without a
\* member keeps its default, a required one without a member is an error
decode_fields(cls, m, i, acc, b) ==
  LET fields == DeclaredFields(cls) IN
  IF i > Len(fields) THEN Ok(acc)
  ELSE LET fld == fields[i] IN
       IF HasKey(m, fld.alias)
       THEN LET given == Get(m, fld.alias)
                r == decode_value(fld,
                                  IF BodyValidated(cls, fld.name) /\ ~b THEN JNull ELSE given,
                                  b) IN
            IF r.raised THEN Raise
            ELSE decode_fields(cls, m, i + 1,
                               [acc EXCEPT !.fields_set = @ \cup {fld.name},
                                           !.attrs = (fld.name :> r.v) @@ @], b)
       ELSE IF fld.req THEN Raise
       ELSE decode_fields(cls, m, i + 1, acc, b)

\* cls(**members): Ok(One(node)) or an error; members that are no alias of a
\* field are ignored
decode_node(cls, m, b) ==
  LET r == decode_fields(cls, m, 1,
                         [class |-> cls, fields_set |-> {}, attrs |-> FieldDefaults(cls)], b) IN
  IF r.raised THEN Raise ELSE Ok(One(r.v))

\* Model.validate(value): an object gives cls(**members); anything else goes
\* through dict(value), which turns an empty array or an empty string into no
\* members at all and fails on the other values the model holds
validate(cls, jv, b) ==
  IF jv.k = "obj" THEN decode_node(cls, jv.m, b)
  ELSE IF jv \in {JArr(<<>>), JStr("")} THEN decode_node(cls, <<>>, b)
  ELSE Raise

\* <cls>.parse_raw(text)
parse_raw(cls, text, b) ==
  LET r == validate(cls, text, b) IN IF r.raised THEN Raise ELSE Ok(r.v.n)

\* --- documents
Tag(t) == <<"NodeType", JStr(t)>>
DIdent(n) == JObj(<<Tag("Ident"), <<"Name", JStr(n)>>>>)
DLit == JObj(<<Tag("BasicLit"), <<"Kind", JStr("STRING")>>, <<"Value", JStr("x")>>>>)
DCall == JObj(<<Tag("CallExpr"), <<"Fun", DIdent("print")>>, <<"Args", JArr(<<DLit>>)>>>>)
DBogus == JObj(<<Tag("Bogus"), <<"Name", JStr("x")>>>>)

\* trees with a function declaration, a body and positions
TFuncDecl ==
  parsed("FuncDeclNode",
         [name |-> One(parsed("IdentNode",
                              [name_pos |-> One(parsed("PositionNode", [line |-> Num(1)])),
                               name |-> Str("main")])),
          body |-> One(parsed("BlockStmtNode",
                              [stmt_list |-> List(<<CHOOSE c \in TInnerCalls : TRUE>>)]))])
\* a function literal, and the call of one
TFuncLit ==
  parsed("FuncLitNode",
         [body |-> One(parsed("BlockStmtNode",
                              [stmt_list |-> List(<<CHOOSE c \in TInnerCalls : TRUE>>)]))])
TFuncLitCall == parsed("CallExprNode", [fun |-> One(TFuncLit), args |-> List(<<TLit>>)])

TFuncFile ==
  parsed("FileNode",
         [package |-> One(parsed("PositionNode", [line |-> Num(1), column |-> Num(1)])),
          name |-> One(parsed("IdentNode", [name |-> Str("main")])),
          decls |-> List(<<TFuncDecl>>)])

FuncTrees == {TFuncDecl, TFuncFile, TFuncLit, TFuncLitCall}

\* the documents the serializer writes for the target trees
WrittenDocs ==
  {[as |-> t.class, text |-> JObj(serialize(t))] : t \in Targets \cup FuncTrees}

\* documents written by hand: well-formed ones the serializer would not write,
\* and malformed ones
HandDocs ==
  { \* members out of declaration order, and a member that is no field
    [as |-> "IdentNode",
     text |-> JObj(<<<<"Name", JStr("print")>>, <<"Extra", JNum(1)>>, Tag("Ident")>>)],
    \* an explicit null
    [as |-> "CallExprNode",
     text |-> JObj(<<Tag("CallExpr"), <<"Fun", JNull>>, <<"Args", JArr(<<DLit>>)>>>>)],
    \* a matching rule, and one without its required name
    [as |-> "MatchRuleNode",
     text |-> JObj(<<Tag("MatchRule"), <<"Name", JStr("call")>>,
                     <<"Rules", JArr(<<JObj(<<Tag("Ident")>>)>>)>>, <<"Exact", JBool(TRUE)>>>>)],
    [as |-> "MatchRuleNode",
     text |-> JObj(<<Tag("MatchRule"), <<"Rules", JArr(<<>>)>>>>)],
    \* a matching rule given its name only
    [as |-> "MatchRuleNode",
     text |-> JObj(<<Tag("MatchRule"), <<"Name", JStr("call")>>>>)],
    \* no tag on the node of a field of one class
    [as |-> "FileNode",
     text |-> JObj(<<Tag("File"), <<"Name", JObj(<<<<"Name", JStr("main")>>>>)>>>>)],
    \* no tag on the document itself
    [as |-> "IdentNode", text |-> JObj(<<<<"Name", JStr("print")>>>>)],
    \* the tag of another class on the node of a field of one class
    [as |-> "FileNode",
     text |-> JObj(<<Tag("File"), <<"Name", JObj(<<Tag("CallExpr")>>)>>>>)],
    \* the tag of another class on the document
    [as |-> "FileNode", text |-> JObj(<<Tag("Package")>>)],
    \* an unknown tag, and no tag, on the node of a Node field
    [as |-> "CallExprNode", text |-> JObj(<<Tag("CallExpr"), <<"Fun", DBogus>>>>)],
    [as |-> "CallExprNode",
     text |-> JObj(<<Tag("CallExpr"), <<"Fun", JObj(<<<<"Name", JStr("print")>>>>)>>>>)],
    \* an unknown tag deep in a list, after a well-formed item
    [as |-> "FileNode",
     text |-> JObj(<<Tag("File"), <<"Decls", JArr(<<DCall, DBogus>>)>>>>)],
    \* an unknown tag inside a function body
    [as |-> "FuncDeclNode",
     text |-> JObj(<<Tag("FuncDecl"), <<"Name", DIdent("main")>>,
                     <<"Body", JObj(<<Tag("BlockStmt"), <<"List", JArr(<<DBogus>>)>>>>)>>>>)],
    \* a function literal whose body is no object
    [as |-> "FuncLitNode", text |-> JObj(<<Tag("FuncLit"), <<"Body", JStr("x")>>>>)],
    \* a number where a string is declared, and a string where a number is
    [as |-> "IdentNode", text |-> JObj(<<Tag("Ident"), <<"Name", JNum(7)>>>>)],
    [as |-> "PositionNode", text |-> JObj(<<Tag("Position"), <<"Line", JStr("7")>>>>)],
    [as |-> "PositionNode", text |-> JObj(<<Tag("Position"), <<"Line", JStr("x")>>>>)],
    \* a string where a list is declared, an object where a string is
    [as |-> "CallExprNode", text |-> JObj(<<Tag("CallExpr"), <<"Args", JStr("x")>>>>)],
    [as |-> "IdentNode", text |-> JObj(<<Tag("Ident"), <<"Name", JObj(<<>>)>>>>)],
    \* an empty array, and a string, where a node is declared
    [as |-> "FileNode", text |-> JObj(<<Tag("File"), <<"Name", JArr(<<>>)>>>>)],
    [as |-> "FileNode", text |-> JObj(<<Tag("File"), <<"Name", JStr("main")>>>>)],
    \* a document that is no object
    [as |-> "FileNode", text |-> JStr("main")] }

Documents == WrittenDocs \cup HandDocs

\* ------------------------------------------------------------- SpecCodec
\* data is read, parsed, and the tree written back and parsed again; the
\* switch is off inside a scope of analyze_function_bodies(False)
InitCodec ==
  /\ doc \in Documents
  /\ bodies \in BOOLEAN
  /\ decoded = Ok(None)
  /\ node = PIdentAny
  /\ pc = "ready"
  /\ tokens = IF bodies THEN <<>> ELSE <<[value |-> FALSE, old_value |-> TRUE]>>
  /\ exc = FALSE
  /\ NoMatcher /\ NoTraversal /\ NoLookup /\ NoThreads

\* tree = <Class>.parse_raw(data)
Deserialize ==
  /\ pc \in {"ready", "serialized"}
  /\ decoded' = parse_raw(doc.as, doc.text, bodies)
  /\ pc' = IF pc = "ready" THEN "parsed" ELSE "reparsed"
  /\ UNCHANGED <<doc, bodies, node, matchVars, treeVars, lookupVars,
               featureVars, stepVars>>

\* data = tree.json(exclude_unset=True, by_alias=True)
Serialize ==
  /\ pc \in {"parsed", "reparsed"}
  /\ ~decoded.raised
  /\ doc' = [doc EXCEPT !.text = JObj(serialize(decoded.v))]
  /\ pc' = IF pc = "parsed" THEN "serialized" ELSE "reserialized"
  /\ UNCHANGED <<decoded, bodies, node, matchVars, treeVars, lookupVars,
               featureVars, stepVars>>

NextCodec == Deserialize \/ Serialize

SpecCodec == InitCodec /\ [][NextCodec]_vars

\* C19: a tree T that was deserialized is written with only its set fields
\* under their aliases; deserializing what was written gives T again, field
\* for field and with the same set fields, and writing that tree gives the
\* identical document.
C19_RoundTrip ==
  /\ pc = "serialized" =>
       /\ doc.text = JObj(serialize(decoded.v))
       /\ \A i \in 1..Len(doc.text.m) :
            \E f \in DOMAIN decoded.v.attrs \cap decoded.v.fields_set :
              \E j \in 1..Len(DeclaredFields(decoded.v.class)) :
                /\ DeclaredFields(decoded.v.class)[j].name = f
                /\ DeclaredFields(decoded.v.class)[j].alias = doc.text.m[i][1]
       /\ Len(doc.text.m) = Cardinality(decoded.v.fields_set)
       /\ parse_raw(doc.as, doc.text, bodies) = Ok(decoded.v)
  /\ pc = "reparsed" =>
       /\ ~decoded.raised
       /\ JObj(serialize(decoded.v)) = doc.text

\* a call whose fun was an explicit null and whose parens were never given has
\* gone through the whole round trip
C19_Witness ==
  /\ pc = "reserialized"
  /\ decoded.v.class = "CallExprNode"
  /\ "fun" \in decoded.v.fields_set /\ decoded.v.attrs.fun = None
  /\ "lparen" \notin decoded.v.fields_set
  /\ decoded.v.attrs.args.k = "list" /\ Len(decoded.v.attrs.args.s) = 1
  /\ HasKey(doc.text.m, "Fun") /\ ~HasKey(doc.text.m, "Lparen")

\* --- what a document has to look like to fit the declared shapes: every
\* member that is a field holds a value of the field's declared kind, every
\* node of a Node field carries a tag of the union, every tag that is present
\* is the one of the node's class, no required field is missing
RECURSIVE Fits(_, _)
RECURSIVE FitsValue(_, _)
FitsValue(fld, jv) ==
  IF jv = JNull THEN fld.opt
  ELSE CASE fld.t = "tag" -> jv = JStr(NodeTypeOf(fld.cls))
         [] fld.t = "str" -> jv.k = "str"
         [] fld.t = "int" -> jv.k = "num"
         [] fld.t = "bool" -> jv.k = "bool"
         [] fld.t = "operator" -> jv.k = "str" /\ jv.s \in {"anyOf", "allOf", "oneOf", "not"}
         [] fld.t = "node" -> jv.k = "obj" /\ Fits(fld.cls, jv.m)
         [] fld.t = "union" ->
              /\ jv.k = "obj" /\ HasKey(jv.m, "NodeType")
              /\ Get(jv.m, "NodeType").k = "str" /\ Get(jv.m, "NodeType").s \in KnownTags
              /\ Fits(ClassOfTag(Get(jv.m, "NodeType").s), jv.m)
         [] fld.t \in {"nodes", "unions"} ->
              /\ jv.k = "arr"
              /\ \A i \in 1..Len(jv.s) :
                   FitsValue([fld EXCEPT !.t = IF fld.t = "unions" THEN "union" ELSE "node",
                                         !.opt = FALSE], jv.s[i])
         [] fld.t = "files" ->
              /\ jv.k = "obj"
              /\ \A i \in 1..Len(jv.m) : jv.m[i][2].k = "obj" /\ Fits("FileNode", jv.m[i][2].m)

Fits(cls, m) ==
  \A i \in 1..Len(DeclaredFields(cls)) :
    LET fld == DeclaredFields(cls)[i] IN
    IF HasKey(m, fld.alias) THEN FitsValue(fld, Get(m, fld.alias)) ELSE ~fld.req

DocFits == doc.text.k = "obj" /\ Fits(doc.as, doc.text.m)

\* every node below the root was given its tag by the document
TaggedBelow(root) ==
  \A i \in 2..Len(NodesOf(root)) :
    IsNode(NodesOf(root)[i].obj) => "node_type" \in NodesOf(root)[i].obj.fields_set

\* C20: the variant of every decoded node comes from its tag, and a document
\* with a tag that is no declared variant, or with a field value that does not
\* fit the declared shape, makes parse_raw of the whole tree raise: no tree is
\* returned for it.
C20_DecodeErrors ==
  pc = "parsed" =>
    /\ ~DocFits => decoded.raised
    /\ ~decoded.raised => TaggedBelow(decoded.v)

\* ------------------------------------------------------------- C23
\* the position of a field in the declaration order of its class
DeclaredIndex(cls, name) ==
  CHOOSE j \in 1..Len(DeclaredFields(cls)) : DeclaredFields(cls)[j].name = name

\* what iterate_children lists for n holds set fields only, in declared order
ListsSetFieldsInOrder(n) ==
  LET ic == iterate_children(n) IN
  /\ ~ic.raised
  /\ \A j \in 1..Len(ic.v) : ic.v[j].name \in n.fields_set
  /\ \A j, k \in 1..Len(ic.v) :
       j < k => DeclaredIndex(n.class, ic.v[j].name) < DeclaredIndex(n.class, ic.v[k].name)

\* C23: for every node of a deserialized tree, a MatchRuleNode included,
\* iterate_children lists no field that was not supplied, and lists the
\* supplied ones in the declared field order.
C23_UnsetFieldsNotListed ==
  (pc = "parsed" /\ ~decoded.raised) =>
    \A i \in 1..Len(NodesOf(decoded.v)) : ListsSetFieldsInOrder(NodesOf(decoded.v)[i].obj)

\* ------------------------------------------------------------- C24
\* every result attached under r is for a sub-pattern one step below r's
\* pattern and is labelled by the group's name when r's pattern is a group, by
\* the name of the field the sub-pattern sits in otherwise; and so on below
RECURSIVE LabelsBelow(_)
LabelsBelow(r) ==
  \A i \in 1..Len(r.matches) :
    LET c == r.matches[i]
        P == ObjAt(pattern, r.pattern)
        step == c.pattern[Len(c.pattern)] IN
    /\ Len(c.pattern) = Len(r.pattern) + 1
    /\ SubSeq(c.pattern, 1, Len(r.pattern)) = r.pattern
    /\ IF IsGroup(P) THEN step[1] = "rules" /\ c.context = P.attrs.name
       ELSE IsStructuralName(P, step[1]) /\ c.context = Str(step[1])
    /\ LabelsBelow(c)

\* C24: in every result tree the root result carries the context the Matcher
\* was created with; a result attached under a result of a non-group pattern
\* carries the name of the structural field its sub-pattern sits in; a result
\* attached under a result of a MatchRuleNode carries that group's name.
C24_ContextLabels ==
  Returned =>
    \A i \in 1..Len(result.v) :
      result.v[i].context = context /\ LabelsBelow(result.v[i])

\* a labelled root over a group found in the fun field over an alternative
C24_Witness ==
  /\ Succeeded
  /\ context = Str("root")
  /\ result.v[1].context = Str("root")
  /\ Len(result.v[1].matches) >= 1
  /\ result.v[1].matches[1].context = Str("fun")
  /\ Len(result.v[1].matches[1].matches) >= 1
  /\ result.v[1].matches[1].matches[1].context = Str("fn")

\* ------------------------------------------------------------- C25
\* the pattern with the operator of every group in it put back to anyOf
RECURSIVE AllAnyOf(_)
AllAnyOf(P) ==
  [P EXCEPT !.attrs =
     [f \in DOMAIN P.attrs |->
        LET v == P.attrs[f] IN
        IF v.k = "node" THEN One(AllAnyOf(v.n))
        ELSE IF v.k = "list" THEN List([i \in 1..Len(v.s) |-> AllAnyOf(v.s[i])])
        ELSE IF IsGroup(P) /\ f = "operator" THEN Str("anyOf")
        ELSE v]]

\* C25: whatever operator the groups of a pattern carry, match returns the
\* result tree (target nodes, contexts, nesting) it returns for the same
\* pattern with operator anyOf.
C25_OperatorIgnored ==
  pc = "matched" => result = match(AllAnyOf(pattern), <<>>, context, node, <<>>)

\* a group with operator "not" has matched somewhere
C25_Witness ==
  /\ Succeeded
  /\ IsGroup(pattern)
  /\ pattern.attrs.operator = Str("not")
  /\ AllAnyOf(pattern) # pattern

\* ------------------------------------------------------------- C26
\* the members of an object without those under key a
WithoutKey(m, a) == SelectSeq(m, LAMBDA kv : kv[1] # a)

\* no node that walk yields lies below the body of a function
NoBodyWalked(root) ==
  LET w == walk(<<>>, root) IN
  \A i \in 1..Len(w.v) : \A j \in 1..Len(w.v[i].path) : w.v[i].path[j][1] # "body"

\* C26: a FuncDecl or FuncLit deserialized while analyze_function_bodies is
\* false has no body, whatever the payload holds under Body: the body is not
\* listed by iterate_children and walk reaches nothing below it; while the
\* switch is true the body of the payload is the body of the node.
C26_BodySwitch ==
  pc = "parsed" =>
    /\ (~bodies /\ ~decoded.raised) =>
         /\ \A i \in 1..Len(NodesOf(decoded.v)) :
              LET n == NodesOf(decoded.v)[i].obj IN
              n.class \in FuncClasses =>
                /\ n.attrs.body = None
                /\ \A j \in 1..Len(iterate_children(n).v) : iterate_children(n).v[j].name # "body"
         /\ NoBodyWalked(decoded.v)
    /\ (~bodies /\ doc.as \in FuncClasses /\ doc.text.k = "obj") =>
         decoded.raised = parse_raw(doc.as, JObj(WithoutKey(doc.text.m, "Body")), bodies).raised
    /\ (bodies /\ ~decoded.raised /\ doc.as \in FuncClasses /\ HasKey(doc.text.m, "Body")
          /\ Get(doc.text.m, "Body").k = "obj") =>
         /\ decoded.v.attrs.body = One(parse_raw("BlockStmtNode", Get(doc.text.m, "Body"), TRUE).v)
         /\ \E j \in 1..Len(iterate_children(decoded.v).v) :
              iterate_children(decoded.v).v[j].name = "body"

\* a function literal whose payload holds a body was deserialized with the
\* switch off
C26_Witness ==
  /\ pc = "parsed"
  /\ ~bodies
  /\ doc.as = "FuncLitNode"
  /\ HasKey(doc.text.m, "Body") /\ Get(doc.text.m, "Body").k = "obj"
  /\ ~decoded.raised
  /\ decoded.v.attrs.body = None
  /\ "body" \in decoded.v.fields_set

\* ------------------------------------------------------------- C27
\* the nodes of a tree in depth-first pre-order: a node, then the subtrees of
\* its children in field order, sequence elements in sequence order
RECURSIVE PreOrder(_, _)
RECURSIVE PreOrderAll(_, _)
PreOrderAll(items, i) ==
  IF i > Len(items) THEN <<>>
  ELSE PreOrder(items[i].path, items[i].obj) \o PreOrderAll(items, i + 1)

PreOrder(path, obj) ==
  <<[path |-> path, obj |-> obj]>> \o PreOrderAll(ChildNodesFrom(path, obj, 1), 1)

HasMethod(h, cls) == cls \in DOMAIN h /\ h[cls] # "generic"

\* C27: visit(root) of a NodeVisitor without visit_<Class> methods completes,
\* calling visit on every node of the tree exactly once, in depth-first
\* pre-order; with methods, every node that is reached goes to the method of
\* its class when there is one and to generic_visit otherwise; generic_visit
\* returns nothing.
C27_VisitPreOrder ==
  pc = "visited" =>
    /\ handlers = Plain =>
         /\ ~visited.raised
         /\ Reached(visited.v) = PreOrder(<<>>, node)
         /\ visited.ret = None
    /\ \A i \in 1..Len(visited.v) :
         visited.v[i].method =
           IF IsNode(visited.v[i].obj) /\ HasMethod(handlers, visited.v[i].obj.class)
           THEN "visit_" \o visited.v[i].obj.class
           ELSE "generic_visit"

\* ------------------------------------------------------------- C28
\* the structural fields P lists all hold sequences, and N has a value for
\* each of them that holds at least one sub-pattern
SequenceFieldsOnly(P, N) ==
  /\ ~iter_fields(P).raised
  /\ Len(iter_fields(P).v) >= 1
  /\ \A i \in 1..Len(iter_fields(P).v) :
       LET f == iter_fields(P).v[i] IN
       /\ f.value.k = "list"
       /\ f.value.s # <<>> => getattr(N, f.name) # None

\* C28: a structural field of P that holds k sub-patterns and is set on N is
\* satisfied exactly when each of the k sub-patterns has a result on at least
\* one element of N's sequence, whatever the order and even when one element
\* serves two sub-patterns; with k = 0 the field asks for nothing.
C28_SequenceFieldIsConjunction ==
  (/\ Returned
   /\ ~IsGroup(pattern)
   /\ SequenceFieldsOnly(pattern, node)
   /\ ScalarsAgree(pattern, node))
  => ((result.v # <<>>) <=>
        \A sp \in SubPatterns(pattern) :
          \E c \in ChildrenIn(node, sp.name) :
            ~SubResults(sp, c).raised /\ SubResults(sp, c).v # <<>>)

\* two different sub-patterns in args, and a target whose args hold a single
\* element that serves both
C28_Witness ==
  /\ Succeeded
  /\ ~IsGroup(pattern)
  /\ SequenceFieldsOnly(pattern, node)
  /\ pattern.attrs.args.k = "list" /\ Len(pattern.attrs.args.s) = 2
  /\ pattern.attrs.args.s[1] # pattern.attrs.args.s[2]
  /\ node.attrs.args.k = "list" /\ Len(node.attrs.args.s) = 1
  /\ Len(result.v[1].matches) >= 2
  /\ result.v[1].matches[1].pattern # result.v[1].matches[2].pattern

\* ------------------------------------------------------------- C29
\* the nodes of the subtree of c (c itself included), with their paths
SubtreeOf(c) == {PreOrder(c.path, c.obj)[i] : i \in 1..Len(PreOrder(c.path, c.obj))}

\* alternative i of the group that is sub-pattern sp has a result at node d
AlternativeMatchesAt(sp, i, d) ==
  LET G == sp.item.obj
      r == match(G.attrs.rules.s[i], Append(sp.item.path, <<"rules", i>>),
                 G.attrs.name, d.obj, d.path) IN
  ~r.raised /\ r.v # <<>>

\* the nodes a group that is a sub-pattern is tried on for candidate c
TriedFor(G, c) == IF getattr(G, "exact") = Bool(TRUE) THEN {c} ELSE SubtreeOf(c)

\* C29: a MatchRuleNode that is a sub-pattern in a structural field has a
\* result on a candidate exactly when one of its alternatives matches some
\* node of the candidate's subtree (the candidate itself only, when exact is
\* true); each of its results is for such a node, and the results attached
\* under it are for that same node.
C29_GroupSubPatternSearches ==
  (Returned /\ ~IsGroup(pattern) /\ ~iter_fields(pattern).raised) =>
    \A sp \in SubPatterns(pattern) :
      IsGroup(sp.item.obj) =>
        \A c \in ChildrenIn(node, sp.name) :
          LET G == sp.item.obj
              rs == SubResults(sp, c) IN
          /\ ~rs.raised
          /\ (rs.v # <<>>) <=>
               \E d \in TriedFor(G, c) : \E i \in 1..Len(G.attrs.rules.s) :
                 AlternativeMatchesAt(sp, i, d)
          /\ \A k \in 1..Len(rs.v) :
               /\ rs.v[k].pattern = sp.item.path
               /\ \E d \in TriedFor(G, c) : rs.v[k].node = d.path
               /\ rs.v[k].matches # <<>>
               /\ \A m \in 1..Len(rs.v[k].matches) : rs.v[k].matches[m].node = rs.v[k].node
               /\ Succeeded =>
                    \E m \in 1..Len(result.v[1].matches) : result.v[1].matches[m] = rs.v[k]

\* a group in args was satisfied by a literal two levels below the call: the
\* candidate is an argument, the result is for the argument's own argument
C29_Witness ==
  /\ Succeeded
  /\ ~IsGroup(pattern)
  /\ \E m \in 1..Len(result.v[1].matches) :
       LET r == result.v[1].matches[m] IN
       /\ IsGroup(ObjAt(pattern, r.pattern))
       /\ getattr(ObjAt(pattern, r.pattern), "exact") = Bool(FALSE)
       /\ Len(r.node) = 2
       /\ ObjAt(node, r.node).class = "BasicLitNode"
       /\ r.matches[1].node = r.node

\* ------------------------------------------------------------- Feature
\* analyze_function_bodies = Feature('analyze_function_bodies', True): bodies
\* is the value of its ContextVar, what get() returns
Default == TRUE

\* mutant of reset: the variable goes back to its default
reset_to_default(token) == Default

\* self._var.set(value): the token keeps the value the variable had
set(value, current) == [value |-> value, old_value |-> current]

\* self._var.reset(token): the value the variable had before the set
reset(token) == token.old_value

InitFeature ==
  /\ NoCodec /\ NoFeature
  /\ node = PIdentAny
  /\ pc = "ready"
  /\ NoMatcher /\ NoTraversal /\ NoLookup /\ NoThreads

\* with feature(v): the generator runs up to its yield
Enter ==
  /\ ~exc
  /\ Len(tokens) < MaxScopes
  /\ \E v \in BOOLEAN :
       /\ tokens' = Append(tokens, set(v, bodies))
       /\ bodies' = v
  /\ pc' = "entered"
  /\ UNCHANGED <<exc, doc, decoded, node, matchVars, treeVars, lookupVars, stepVars>>

\* the end of the with block is reached: the finally clause resets the token
Leave ==
  /\ ~exc
  /\ tokens # <<>>
  /\ bodies' = reset(tokens[Len(tokens)])
  /\ tokens' = SubSeq(tokens, 1, Len(tokens) - 1)
  /\ pc' = "left"
  /\ UNCHANGED <<exc, doc, decoded, node, matchVars, treeVars, lookupVars, stepVars>>

\* the code inside the innermost scope raises
Throw ==
  /\ ~exc
  /\ tokens # <<>>
  /\ exc' = TRUE
  /\ pc' = "raised"
  /\ UNCHANGED <<tokens, bodies, doc, decoded, node, matchVars, treeVars, lookupVars, stepVars>>

\* the exception leaves the innermost scope: it is thrown into the generator
\* at its yield, the finally clause resets the token, and it goes on outwards
Unwind ==
  /\ exc
  /\ tokens # <<>>
  /\ bodies' = reset(tokens[Len(tokens)])
  /\ tokens' = SubSeq(tokens, 1, Len(tokens) - 1)
  /\ pc' = "unwound"
  /\ UNCHANGED <<exc, doc, decoded, node, matchVars, treeVars, lookupVars, stepVars>>

\* an except clause around the scopes left so far takes the exception
Catch ==
  /\ exc
  /\ exc' = FALSE
  /\ pc' = "caught"
  /\ UNCHANGED <<tokens, bodies, doc, decoded, node, matchVars, treeVars, lookupVars, stepVars>>

NextFeature == Enter \/ Leave \/ Throw \/ Unwind \/ Catch

SpecFeature == InitFeature /\ [][NextFeature]_vars

\* C30: inside a scope entered with v, get() returns v; a scope that is left,
\* at its end or through an exception, gives get() the value it had just
\* before the scope was entered, which for nested scopes is the value of the
\* enclosing scope; outside all scopes get() returns the default, true.
C30_ScopesRestore ==
  /\ tokens = <<>> => bodies = Default
  /\ tokens # <<>> => bodies = tokens[Len(tokens)].value
  /\ \A i \in 1..Len(tokens) :
       tokens[i].old_value = IF i = 1 THEN Default ELSE tokens[i - 1].value
  /\ pc \in {"left", "unwound"} =>
       bodies = IF tokens = <<>> THEN Default ELSE tokens[Len(tokens)].value

\* an exception has left an inner scope and is still on its way; the outer
\* scope's value, which is not the default, is back
C30_Witness ==
  /\ pc = "unwound"
  /\ exc
  /\ Len(tokens) = 1
  /\ tokens[1].value = FALSE
  /\ bodies = FALSE

\* ------------------------------------------------------------- calls in steps
\* Two callers work on one tree at the same time, each either consuming
\* walk(node) item by item or running Matcher(pattern).match(node); the steps
\* of the two interleave. A walk's deque belongs to the call that made it.
Callers == {1, 2}

\* more turns than any call on these trees takes
MaxSteps == 40

\* caller t takes one more turn
Turn(t) == steps[t] < MaxSteps /\ steps' = [steps EXCEPT ![t] = @ + 1]

\* mutant of deque_of: every call works on the deque of the first
deque_shared(t) == 1

\* the deque a call of walk works on: its own local todo
deque_of(t) == t

\* mutant of sub_pattern: the sub-matcher is built on the pattern itself
sub_pattern_same(ppath, item) == ppath

\* the pattern make_matcher(item, name) is given: the item of the field
sub_pattern(ppath, item) == item.path

\* one call of Matcher.match about to be made: the pattern at ppath against
\* the node at npath, made by the matcher of the pattern at from
Call(ppath, npath, from) == [ppath |-> ppath, npath |-> npath, from |-> from, sub |-> TRUE]
RootCall == [ppath |-> <<>>, npath |-> <<>>, from |-> <<>>, sub |-> FALSE]

\* the calls generic_match makes from work item i on, in order: one per
\* candidate of each sub-pattern, up to the first sub-pattern without a result
RECURSIVE sub_calls_from(_, _, _, _, _)
sub_calls_from(ppath, N, npath, work, i) ==
  IF i > Len(work) THEN <<>>
  ELSE LET name == work[i].name
           node_value == getattr(N, name) IN
       IF field_skipped(node_value) THEN sub_calls_from(ppath, N, npath, work, i + 1)
       ELSE LET cands == candidates(npath, name, node_value)
                sub_match == match_candidates(work[i].item, name, cands, 1) IN
            [j \in 1..Len(cands) |->
               Call(sub_pattern(ppath, work[i].item), cands[j].path, ppath)]
            \o (IF sub_match.raised \/ ~sub_match_found(sub_match.v) THEN <<>>
                ELSE sub_calls_from(ppath, N, npath, work, i + 1))

\* the calls _single_match makes: one per rule, on the same node
single_calls(G, gpath, npath) ==
  IF G.attrs["rules"].k # "list" THEN <<>>
  ELSE [i \in 1..Len(G.attrs["rules"].s) |->
          Call(Append(gpath, <<"rules", i>>), npath, gpath)]

RECURSIVE search_calls_from(_, _, _, _)
search_calls_from(G, gpath, walked, i) ==
  IF i > Len(walked) THEN <<>>
  ELSE single_calls(G, gpath, walked[i].path) \o search_calls_from(G, gpath, walked, i + 1)

\* the calls of Matcher.match that one call of Matcher.match makes itself
matcher_calls(P, ppath, N, npath) ==
  IF IsNode(P) /\ P.class = "MatchRuleNode"
  THEN IF exact_is_true(P) THEN single_calls(P, ppath, npath)
       ELSE search_calls_from(P, ppath, walk(npath, N).v, 1)
  ELSE LET cf == complex_fields(P) IN
       IF cf.raised THEN <<>>
       ELSE IF ~scalar_fields_match(P, N, cf.v) THEN <<>>
       ELSE sub_calls_from(ppath, N, npath, WorkList(ppath, cf.v, 1), 1)

Idle(kind) ==
  [kind |-> kind, pc |-> "start", todo |-> <<>>, out |-> <<>>, calls |-> <<>>,
   result |-> Ok(<<>>)]

SharedTrees == TNestedCalls \cup {TSpliceCall, TFuncLitCall}
SharedPatterns == {PCapture, PMain, PPrintCall}

InitShared ==
  /\ node \in SharedTrees
  /\ pattern \in SharedPatterns
  /\ context = None
  /\ result = Ok(<<>>)
  /\ threads \in [Callers -> {Idle("walk"), Idle("match")}]
  /\ steps = [t \in Callers |-> 0]
  /\ pc = "ready"
  /\ NoTraversal /\ NoLookup /\ NoCodec /\ NoFeature

\* todo = deque([node])
WalkStart(t) ==
  /\ threads[t].kind = "walk" /\ threads[t].pc = "start"
  /\ threads' = [threads EXCEPT ![deque_of(t)].todo = <<[path |-> <<>>, obj |-> node]>>,
                                ![t].pc = "running"]
  /\ Turn(t)
  /\ UNCHANGED <<node, pc, matchVars, treeVars, lookupVars, codecVars, featureVars>>

\* one turn of the while loop: popleft, extend with the children, yield
WalkStep(t) ==
  /\ threads[t].kind = "walk" /\ threads[t].pc = "running"
  /\ threads[deque_of(t)].todo # <<>>
  /\ LET todo == threads[deque_of(t)].todo
         cur == Head(todo)
         ch == iter_child_nodes(cur.path, cur.obj) IN
     threads' =
       IF ch.raised
       THEN [threads EXCEPT ![deque_of(t)].todo = Tail(todo), ![t].pc = "raised"]
       ELSE [threads EXCEPT ![deque_of(t)].todo = Tail(todo) \o ch.v,
                            ![t].out = Append(@, cur)]
  /\ Turn(t)
  /\ UNCHANGED <<node, pc, matchVars, treeVars, lookupVars, codecVars, featureVars>>

\* the deque is empty: the generator is exhausted
WalkEnd(t) ==
  /\ threads[t].kind = "walk" /\ threads[t].pc = "running"
  /\ threads[deque_of(t)].todo = <<>>
  /\ threads' = [threads EXCEPT ![t].pc = "done"]
  /\ Turn(t)
  /\ UNCHANGED <<node, pc, matchVars, treeVars, lookupVars, codecVars, featureVars>>

\* Matcher(pattern).match(node) is called
MatchStart(t) ==
  /\ threads[t].kind = "match" /\ threads[t].pc = "start"
  /\ threads' = [threads EXCEPT ![t].calls = <<RootCall>>, ![t].pc = "running"]
  /\ Turn(t)
  /\ UNCHANGED <<node, pc, matchVars, treeVars, lookupVars, codecVars, featureVars>>

\* the innermost call of Matcher.match that has not run yet runs, and the
\* calls it makes itself come before the ones that were waiting
MatchStep(t) ==
  /\ threads[t].kind = "match" /\ threads[t].pc = "running"
  /\ threads[t].calls # <<>>
  /\ LET c == Head(threads[t].calls) IN
     threads' = [threads EXCEPT ![t].calls =
                   matcher_calls(ObjAt(pattern, c.ppath), c.ppath,
                                 ObjAt(node, c.npath), c.npath) \o Tail(@)]
  /\ Turn(t)
  /\ UNCHANGED <<node, pc, matchVars, treeVars, lookupVars, codecVars, featureVars>>

\* the outermost call returns its list
MatchEnd(t) ==
  /\ threads[t].kind = "match" /\ threads[t].pc = "running"
  /\ threads[t].calls = <<>>
  /\ threads' = [threads EXCEPT ![t].result = match(pattern, <<>>, context, node, <<>>),
                                ![t].pc = "done"]
  /\ Turn(t)
  /\ UNCHANGED <<node, pc, matchVars, treeVars, lookupVars, codecVars, featureVars>>

NextShared ==
  \E t \in Callers :
    \/ WalkStart(t) \/ WalkStep(t) \/ WalkEnd(t)
    \/ MatchStart(t) \/ MatchStep(t) \/ MatchEnd(t)

SpecShared == InitShared /\ [][NextShared]_vars

\* a caller whose call has not returned has a step to take
CanStep(t) ==
  \/ threads[t].pc = "start"
  \/ threads[t].pc = "running" /\ threads[t].kind \in {"walk", "match"}

\* a caller whose call has not returned is given its next turn: every step
\* of t is a turn of t, and the turns of t are the steps of t
Scheduled(t) == threads[t].pc \in {"start", "running"} /\ Turn(t)

SpecSharedFair == SpecShared /\ \A t \in Callers : WF_steps(Scheduled(t))

Finished(t) == threads[t].pc \in {"done", "raised"}

\* what caller t has when its call is over is what the same call gives on
\* the tree with nobody else at work
ReturnsAsAlone(t) ==
  /\ (threads[t].kind = "walk" /\ threads[t].pc = "done") =>
        /\ ~walk(<<>>, node).raised
        /\ threads[t].out = walk(<<>>, node).v
  /\ (threads[t].kind = "match" /\ threads[t].pc = "done") =>
        threads[t].result = match(pattern, <<>>, None, node, <<>>)

ProperChildCalls ==
  \A t \in Callers : \A i \in 1..Len(threads[t].calls) :
    LET c == threads[t].calls[i] IN
    c.sub => /\ Len(c.ppath) = Len(c.from) + 1
             /\ SubSeq(c.ppath, 1, Len(c.from)) = c.from

\* C22: termination. On a finite tree and a finite pattern every call of
\* walk and of Matcher.match that keeps running comes to its end, and every
\* recursive sub-match is made with a proper child of the current pattern.
C22_Terminates ==
  /\ []ProperChildCalls
  /\ [](\A t \in Callers : ~Finished(t) => CanStep(t) /\ steps[t] < MaxSteps)
  /\ <>(\A t \in Callers : Finished(t))

\* a matcher in the middle of its work with sub-matches on child patterns
\* still to run, while the other caller is walking
C22_Witness ==
  /\ threads[1].kind = "match" /\ threads[1].pc = "running"
  /\ Len(threads[1].calls) > 1 /\ threads[1].calls[1].sub
  /\ Len(threads[1].calls[1].ppath) > 1
  /\ threads[2].kind = "walk" /\ threads[2].pc = "running" /\ threads[2].out # <<>>

====
